---- MODULE Spec2Model ----
(***************************************************************************)
(* Model of the PDF extraction pipeline: the per-category extraction       *)
(* tools (primary / fallback prompting with schema validation), the        *)
(* document classifier with its keyword fallback, the heuristic evaluator  *)
(* of extracted records, the JSON database, and the orchestrators          *)
(* (processDirectory, main, pdfUrlWorkflow).                               *)
(*                                                                         *)
(* Strings are sequences of one-character strings, so that toLowerCase,    *)
(* trim and includes are computed and not assumed.  A JavaScript value is  *)
(* a record [t, s]: t is its type ("string", "number" standing for any     *)
(* non-string value, "undefined" for an absent property) and s the         *)
(* characters of a string (<<>> otherwise).                                *)
(***************************************************************************)
EXTENDS Integers, Sequences, FiniteSets, TLC

VARIABLES
    \* --- extraction tool (invoiceTool / contractTool / receiptTool) ---
    category,       \* which tool is executing: "invoice", "contract", "receipt"
    xpc,            \* position in execute: "primary", "fallback", "returned", "failed", "idle"
    modelCalls,     \* number of generateText calls issued by this execute
    reply,          \* the model reply the returned record was parsed from (NoReply otherwise)
    attempts,       \* history: the outcome of each attempt so far, in order
    primaryError,   \* the error caught by the outer catch (NoError before)
    extracted,      \* the record returned by execute (NoRecord before)
    extractError,   \* the Error thrown by execute (NoFailure before)
    \* --- classifyDocument.execute ---
    docText,        \* inputData.text, the full text of the document
    cpc,            \* "call", "replied", "done", "failed", "idle"
    modelText,      \* result.text of the classification call (NoText before / on rejection)
    classified,     \* the returned {documentType, confidence} (NoClass before)
    classifyError,  \* the Error thrown by the step (NoFailure before)
    \* --- evaluateExtractedData ---
    evalData,       \* the argument data
    originalText,   \* the argument originalText
    inputQuery,     \* the argument inputQuery
    epc,            \* "call", "done", "idle"
    scorer,         \* what answerRelevancy.measure did in this call
    result,         \* the DocumentExtractionResult the call resolved with
    \* --- the JSON database and the calls of addToJSONDatabase ---
    dbFile,         \* the database file: absent, unparseable, or a database
    clock,          \* Date.now(), in milliseconds
    appending,      \* per process: the addToJSONDatabase call in progress
    lastSearch,     \* the last searchDocuments call and what it returned
    \* --- one run of an orchestrator (processDirectory, main, pdfUrlWorkflow) ---
    runner,         \* which orchestrator runs
    ppc,            \* its position: the step about to run, or how it ended
    pdfFiles,       \* pdfFiles.length (1 for a single document)
    showEval,       \* the showEval argument of processPdfFile
    fileIndex,      \* the position of the loop over pdfFiles
    stats,          \* the ProcessingStats of the run
    carried,        \* what the steps hand on: text, documentType, extractedData
    fileLog,        \* history, per file: the steps run and the increments made
    evaluation,     \* the evaluation started by printEvaluationReport: "none",
                    \* "measuring", "queued" (its then callback is due), "reported"
    console,        \* history: the report and the closing lines of main, as printed
    dbBefore        \* history: the database file as the run found it

extractVars == <<category, xpc, modelCalls, reply, attempts, primaryError, extracted, extractError>>

classifyVars == <<docText, cpc, modelText, classified, classifyError>>

evalVars == <<evalData, originalText, inputQuery, epc, scorer, result>>

storeVars == <<dbFile, clock, appending, lastSearch>>

batchVars == <<runner, ppc, pdfFiles, showEval, fileIndex, stats, carried, fileLog,
               evaluation, console, dbBefore>>

vars == <<extractVars, classifyVars, evalVars, storeVars, batchVars>>

----------------------------------------------------------------------------
(* JavaScript values *)

Range(seq) == {seq[i] : i \in DOMAIN seq}

Str(s) == [t |-> "string", s |-> s]
Undefined == [t |-> "undefined", s |-> <<>>]
NonString == [t |-> "number", s |-> <<>>]

IsString(v) == v.t = "string"

Categories == {"invoice", "contract", "receipt"}

\* the category names as values of the documentType property
TypeName(c) ==
    CASE c = "invoice"  -> <<"i","n","v","o","i","c","e">>
      [] c = "contract" -> <<"c","o","n","t","r","a","c","t">>
      [] c = "receipt"  -> <<"r","e","c","e","i","p","t">>

----------------------------------------------------------------------------
(* Extraction tools *)

invoiceSchema  == <<"client", "invoiceNumber", "totalAmount", "currency", "dueDate">>
contractSchema == <<"clientName", "startDate", "endDate", "paymentTerms", "projectName">>
receiptSchema  == <<"date", "customerEmail", "amount", "description">>

\* the required fields of a category's schema, in declaration order
schemaFields(c) ==
    CASE c = "invoice"  -> invoiceSchema
      [] c = "contract" -> contractSchema
      [] c = "receipt"  -> receiptSchema

RequiredFields(c) == Range(schemaFields(c))

\* keys of the z.object schema of a category
SchemaKeys(c) == RequiredFields(c) \cup {"documentType", "extractedAt"}

\* keys a parsed model object may carry: the schema's keys and one foreign key
ObjectKeys(c) == SchemaKeys(c) \cup {"notes"}

\* the keys an object actually has
KeysOf(o) == {k \in DOMAIN o : o[k].t # "undefined"}

\* an object without any key
NoRecord == [k \in {} |-> Undefined]

\* new Date().toISOString() at the time of the attempt
Now == <<"2","0","2","5","-","0","8","-","0","1","T","1","0",":","0","0","Z">>

\* a timestamp a model reply may carry in its own extractedAt
Stale == <<"1","9","9","9">>

NotFoundText == <<"N","o","t"," ","f","o","u","n","d">>

OtherCategory(c) ==
    CASE c = "invoice"  -> "contract"
      [] c = "contract" -> "receipt"
      [] c = "receipt"  -> "invoice"

\* the values JSON.parse may give to the keys of the reply
FieldReplyValues == {Undefined, NonString, Str(<<>>), Str(NotFoundText)}

TypeReplyValues(c) ==
    {Undefined, NonString, Str(TypeName(c)), Str(TypeName(OtherCategory(c)))}

StampReplyValues == {Undefined, Str(Stale)}

NotesReplyValues == {Undefined, Str(NotFoundText)}

\* the objects JSON.parse may return for the brace-delimited part of a reply
ModelObjects(c) ==
    {[k \in ObjectKeys(c) |->
        CASE k = "documentType" -> dt
          [] k = "extractedAt" -> ea
          [] k = "notes" -> nt
          [] OTHER -> f[k]] :
        f \in [RequiredFields(c) -> FieldReplyValues],
        dt \in TypeReplyValues(c), ea \in StampReplyValues, nt \in NotesReplyValues}

\* what one generateText call followed by match and JSON.parse can come to:
\*   "transport": generateText rejects;  "nojson": the text has no {...} part;
\*   "syntax": JSON.parse throws;        "object": JSON.parse returns obj
Reply(kind, obj) == [kind |-> kind, obj |-> obj]

NoReply == Reply("none", NoRecord)

Replies(c) ==
    {Reply("transport", NoRecord), Reply("nojson", NoRecord), Reply("syntax", NoRecord)}
        \cup {Reply("object", o) : o \in ModelObjects(c)}

\* { documentType: c, ...extractedData, extractedAt: new Date().toISOString() }
finalData(c, o) ==
    [k \in ObjectKeys(c) |->
        IF k = "extractedAt" THEN Str(Now)
        ELSE IF k = "documentType" /\ o[k].t = "undefined" THEN Str(TypeName(c))
        ELSE o[k]]

\* schema.parse accepts: documentType is the literal, every other key a string
schemaAccepts(c, d) ==
    /\ d["documentType"] = Str(TypeName(c))
    /\ \A k \in SchemaKeys(c) : IsString(d[k])

\* variant: a schema in passthrough mode, which keeps undeclared keys
schemaParse_Passthrough(c, d) == d

\* schema.parse returns the object without the keys the schema does not declare
schemaParse(c, d) == [k \in SchemaKeys(c) |-> d[k]]

\* one attempt (primary or fallback): its error, or "ok" and the validated record
NoError == "none"

AttemptError(c, r) ==
    CASE r.kind = "transport" -> "TransportError"
      [] r.kind = "nojson" -> "NoJsonFound"
      [] r.kind = "syntax" -> "SyntaxError"
      [] r.kind = "object" ->
            IF schemaAccepts(c, finalData(c, r.obj)) THEN NoError ELSE "ZodError"

AttemptRecord(c, r) == schemaParse(c, finalData(c, r.obj))

\* the Error thrown by the inner catch of the fallback
NoFailure == [name |-> "none", causes |-> {}]

BothFailed(primaryErr, fallbackErr) ==
    [name |-> "ExtractionFailed", causes |-> {<<"fallback", fallbackErr>>}]

ExtractInit ==
    /\ category \in Categories
    /\ xpc = "primary"
    /\ modelCalls = 0
    /\ reply = NoReply
    /\ attempts = <<>>
    /\ primaryError = NoError
    /\ extracted = NoRecord
    /\ extractError = NoFailure

\* variant: a primary failure is thrown at once, without a fallback attempt
PrimaryAttempt_NoFallback ==
    /\ xpc = "primary"
    /\ \E r \in Replies(category) :
        /\ modelCalls' = modelCalls + 1
        /\ attempts' = Append(attempts, AttemptError(category, r))
        /\ IF AttemptError(category, r) = NoError
           THEN /\ extracted' = AttemptRecord(category, r)
                /\ reply' = r
                /\ xpc' = "returned"
                /\ UNCHANGED <<primaryError, extractError>>
           ELSE /\ primaryError' = AttemptError(category, r)
                /\ extractError' = [name |-> "ExtractionFailed",
                                    causes |-> {<<"primary", AttemptError(category, r)>>}]
                /\ xpc' = "failed"
                /\ UNCHANGED <<extracted, reply>>
    /\ UNCHANGED category

\* variant: the try block does not return its validated record
PrimaryAttempt_NoReturn ==
    /\ xpc = "primary"
    /\ \E r \in Replies(category) :
        /\ modelCalls' = modelCalls + 1
        /\ attempts' = Append(attempts, AttemptError(category, r))
        /\ primaryError' = AttemptError(category, r)
        /\ xpc' = "fallback"
        /\ UNCHANGED <<extracted, reply>>
    /\ UNCHANGED <<category, extractError>>

\* execute up to the return of the try block or the entry into the outer catch
PrimaryAttempt ==
    /\ xpc = "primary"
    /\ \E r \in Replies(category) :
        /\ modelCalls' = modelCalls + 1
        /\ attempts' = Append(attempts, AttemptError(category, r))
        /\ IF AttemptError(category, r) = NoError
           THEN /\ extracted' = AttemptRecord(category, r)
                /\ reply' = r
                /\ xpc' = "returned"
                /\ UNCHANGED primaryError
           ELSE /\ primaryError' = AttemptError(category, r)
                /\ xpc' = "fallback"
                /\ UNCHANGED <<extracted, reply>>
    /\ UNCHANGED <<category, extractError>>

\* the outer catch: the fallback call, its parse and validation, or the final throw
FallbackAttempt ==
    /\ xpc = "fallback"
    /\ \E r \in Replies(category) :
        /\ modelCalls' = modelCalls + 1
        /\ attempts' = Append(attempts, AttemptError(category, r))
        /\ IF AttemptError(category, r) = NoError
           THEN /\ extracted' = AttemptRecord(category, r)
                /\ reply' = r
                /\ xpc' = "returned"
                /\ UNCHANGED extractError
           ELSE /\ extractError' = BothFailed(primaryError, AttemptError(category, r))
                /\ xpc' = "failed"
                /\ UNCHANGED <<extracted, reply>>
    /\ UNCHANGED <<category, primaryError>>

ExtractNext ==
    \/ PrimaryAttempt /\ UNCHANGED <<classifyVars, evalVars, storeVars, batchVars>>
    \/ FallbackAttempt /\ UNCHANGED <<classifyVars, evalVars, storeVars, batchVars>>

----------------------------------------------------------------------------
(* Strings *)

UpperCase == <<"A","B","C","D","E","F","G","H","I","J","K","L","M",
               "N","O","P","Q","R","S","T","U","V","W","X","Y","Z">>
LowerCase == <<"a","b","c","d","e","f","g","h","i","j","k","l","m",
               "n","o","p","q","r","s","t","u","v","w","x","y","z">>

\* the lower-case letter of each upper-case letter
LowerOf == [u \in Range(UpperCase) |-> LowerCase[CHOOSE i \in 1..26 : UpperCase[i] = u]]

lowerChar(ch) == IF ch \in DOMAIN LowerOf THEN LowerOf[ch] ELSE ch

\* String.prototype.toLowerCase
toLowerCase(s) == [i \in 1..Len(s) |-> lowerChar(s[i])]

WhiteSpace == {" ", "\t", "\n"}

\* String.prototype.trim
trim(s) ==
    IF \A i \in 1..Len(s) : s[i] \in WhiteSpace
    THEN <<>>
    ELSE LET first == CHOOSE i \in 1..Len(s) :
                        /\ s[i] \notin WhiteSpace
                        /\ \A j \in 1..(i - 1) : s[j] \in WhiteSpace
             last  == CHOOSE i \in 1..Len(s) :
                        /\ s[i] \notin WhiteSpace
                        /\ \A j \in (i + 1)..Len(s) : s[j] \in WhiteSpace
         IN  SubSeq(s, first, last)

\* String.prototype.includes
includes(s, sub) ==
    \E i \in 1..(Len(s) - Len(sub) + 1) : SubSeq(s, i, i + Len(sub) - 1) = sub

\* String.prototype.substring(0, n)
substring0(s, n) == SubSeq(s, 1, IF Len(s) < n THEN Len(s) ELSE n)

----------------------------------------------------------------------------
(* Classifier: classifyDocument.execute of docParseWorkflow and pdfUrlWorkflow *)

\* text.substring(0, 2000) is what the prompt shows the model
ExcerptLength == 2000

promptExcerpt(text) == substring0(text, ExcerptLength)

\* confidences, in tenths
ModelConfidence == 8
KeywordConfidence == 6

kwInvoice   == <<"i","n","v","o","i","c","e">>
kwBillTo    == <<"b","i","l","l"," ","t","o">>
kwAmountDue == <<"a","m","o","u","n","t"," ","d","u","e">>
kwAgreement == <<"a","g","r","e","e","m","e","n","t">>
kwContract  == <<"c","o","n","t","r","a","c","t">>
kwTerms     == <<"t","e","r","m","s">>
kwReceipt   == <<"r","e","c","e","i","p","t">>
kwStripe    == <<"s","t","r","i","p","e">>
kwPayment   == <<"p","a","y","m","e","n","t">>

NoText == <<"<","n","o","n","e",">">>
NoClass == [documentType |-> "none", confidence |-> 0]

Classified(t, conf) == [documentType |-> t, confidence |-> conf]

\* variant: the keyword scan sees only the excerpt shown to the model
keywordText_Excerpt(text) == toLowerCase(promptExcerpt(text))

\* const textLower = text.toLowerCase()
keywordText(text) == toLowerCase(text)

\* the else branch: detection by keywords, or "none" when the step throws
keywordCategory(text) ==
    LET textLower == keywordText(text)
    IN  IF includes(textLower, kwInvoice) \/ includes(textLower, kwBillTo)
            \/ includes(textLower, kwAmountDue) THEN "invoice"
        ELSE IF includes(textLower, kwAgreement) \/ includes(textLower, kwContract)
            \/ includes(textLower, kwTerms) THEN "contract"
        ELSE IF includes(textLower, kwReceipt) \/ includes(textLower, kwStripe)
            \/ includes(textLower, kwPayment) THEN "receipt"
        ELSE "none"

\* variant: the names are looked for in the opposite order
classify_ReceiptFirst(responseText, text) ==
    LET classification == trim(toLowerCase(responseText))
    IN  IF includes(classification, kwReceipt) THEN Classified("receipt", ModelConfidence)
        ELSE IF includes(classification, kwContract) THEN Classified("contract", ModelConfidence)
        ELSE IF includes(classification, kwInvoice) THEN Classified("invoice", ModelConfidence)
        ELSE Classified(keywordCategory(text), KeywordConfidence)

\* the decision from result.text; documentType "none" stands for
\* throw new Error('Could not classify document type')
classify(responseText, text) ==
    LET classification == trim(toLowerCase(responseText))
    IN  IF includes(classification, kwInvoice) THEN Classified("invoice", ModelConfidence)
        ELSE IF includes(classification, kwContract) THEN Classified("contract", ModelConfidence)
        ELSE IF includes(classification, kwReceipt) THEN Classified("receipt", ModelConfidence)
        ELSE Classified(keywordCategory(text), KeywordConfidence)

\* throw new Error(`Classification failed: ${error}`)
ClassificationFailed(cause) == [name |-> "ClassificationFailed", causes |-> {cause}]

Padding == [i \in 1..ExcerptLength |-> "x"]

\* document texts
DocTexts ==
    { <<"I","N","V","O","I","C","E"," ","#","4","2"," ","B","i","l","l"," ","T","o",":"," ",
        "A","c","m","e"," ","A","m","o","u","n","t"," ","d","u","e",":"," ","$","5">>,
      <<"A","m","o","u","n","t"," ","D","u","e",":"," ","$","5">>,
      <<"B","i","l","l"," ","t","o"," ","A","c","m","e">>,
      <<"S","e","r","v","i","c","e"," ","A","g","r","e","e","m","e","n","t">>,
      <<"T","E","R","M","S"," ","a","p","p","l","y">>,
      <<"C","o","n","t","r","a","c","t","o","r">>,
      <<"S","t","r","i","p","e"," ","c","h","a","r","g","e">>,
      <<"P","a","y","m","e","n","t"," ","t","e","r","m","s">>,
      <<"P","a","y","m","e","n","t"," ","o","k">>,
      <<"R","e","c","e","i","p","t"," ","f","o","r"," ","i","n","v","o","i","c","e">>,
      <<"R","E","C","E","I","P","T">>,
      <<"H","e","l","l","o"," ","w","o","r","l","d">>,
      <<"a","m","o","u","n","t","d","u","e">>,
      <<>>,
      Padding \o <<" ","a","m","o","u","n","t"," ","d","u","e">>,
      <<"r","e","c","e","i","p","t"," ">> \o Padding \o <<" ","i","n","v","o","i","c","e">>,
      Padding \o <<" ","n","o","t","h","i","n","g">> }

\* texts the classification call may resolve to
ModelTexts ==
    { <<"i","n","v","o","i","c","e">>,
      <<"I","n","v","o","i","c","e">>,
      <<" ","C","O","N","T","R","A","C","T","\n">>,
      <<"r","e","c","e","i","p","t",".">>,
      <<"R","e","c","e","i","p","t"," ","o","f"," ","a","n"," ","i","n","v","o","i","c","e">>,
      <<"c","o","n","t","r","a","c","t"," ","o","r"," ","r","e","c","e","i","p","t">>,
      <<"r","e","c","e","i","p","t",","," ","n","o","t"," ","c","o","n","t","r","a","c","t">>,
      <<"i","n","v","o","i","c","e","/","c","o","n","t","r","a","c","t","/","r","e","c","e","i","p","t">>,
      <<"I"," ","a","m"," ","n","o","t"," ","s","u","r","e">>,
      <<"b","i","l","l">>,
      <<"a","g","r","e","e","m","e","n","t">>,
      <<>> }

ClassifyInit ==
    /\ docText \in DocTexts
    /\ cpc = "call"
    /\ modelText = NoText
    /\ classified = NoClass
    /\ classifyError = NoFailure

ClassifyIdle ==
    /\ docText = <<>>
    /\ cpc = "idle"
    /\ modelText = NoText
    /\ classified = NoClass
    /\ classifyError = NoFailure

\* await generateText(...) resolves with a text
ClassifyModelReplies ==
    /\ cpc = "call"
    /\ \E t \in ModelTexts : modelText' = t
    /\ cpc' = "replied"
    /\ UNCHANGED <<docText, classified, classifyError>>

\* variant: a rejected call is answered from the keywords of the text
ClassifyModelFails_KeywordFallback ==
    /\ cpc = "call"
    /\ LET r == Classified(keywordCategory(docText), KeywordConfidence)
       IN  IF r.documentType = "none"
           THEN /\ cpc' = "failed"
                /\ classifyError' = ClassificationFailed("TransportError")
                /\ UNCHANGED classified
           ELSE /\ cpc' = "done"
                /\ classified' = r
                /\ UNCHANGED classifyError
    /\ UNCHANGED <<docText, modelText>>

\* await generateText(...) rejects: the catch rethrows
ClassifyModelFails ==
    /\ cpc = "call"
    /\ cpc' = "failed"
    /\ classifyError' = ClassificationFailed("TransportError")
    /\ UNCHANGED <<docText, modelText, classified>>

\* the rest of the try block: the decision, its return or its throw
ClassifyDecide ==
    /\ cpc = "replied"
    /\ LET r == classify(modelText, docText)
       IN  IF r.documentType = "none"
           THEN /\ cpc' = "failed"
                /\ classifyError' = ClassificationFailed("CouldNotClassify")
                /\ UNCHANGED classified
           ELSE /\ cpc' = "done"
                /\ classified' = r
                /\ UNCHANGED classifyError
    /\ UNCHANGED <<docText, modelText>>

ClassifyNext ==
    \/ ClassifyModelReplies /\ UNCHANGED <<extractVars, evalVars, storeVars, batchVars>>
    \/ ClassifyModelFails /\ UNCHANGED <<extractVars, evalVars, storeVars, batchVars>>
    \/ ClassifyDecide /\ UNCHANGED <<extractVars, evalVars, storeVars, batchVars>>

ExtractIdle ==
    /\ category = "invoice"
    /\ xpc = "idle"
    /\ modelCalls = 0
    /\ reply = NoReply
    /\ attempts = <<>>
    /\ primaryError = NoError
    /\ extracted = NoRecord
    /\ extractError = NoFailure

----------------------------------------------------------------------------
(* Evaluator: evaluateExtractedData of evals/docEval.ts                    *)
(*                                                                         *)
(* Scores are exact rationals: the integer Point stands for 1.0, so that   *)
(* every quotient the function forms (by 4, 5, 12, 15 and by 1..5 format   *)
(* checks) and every weighted sum is an integer.                           *)

Point == 60 * 1000

Percent(num, den) == (num * 100 * Point) \div den

\* the characters of the field names, for field.includes(...)
FieldChars(f) ==
    CASE f = "client" -> <<"c","l","i","e","n","t">>
      [] f = "invoiceNumber" -> <<"i","n","v","o","i","c","e","N","u","m","b","e","r">>
      [] f = "totalAmount" -> <<"t","o","t","a","l","A","m","o","u","n","t">>
      [] f = "currency" -> <<"c","u","r","r","e","n","c","y">>
      [] f = "dueDate" -> <<"d","u","e","D","a","t","e">>
      [] f = "clientName" -> <<"c","l","i","e","n","t","N","a","m","e">>
      [] f = "startDate" -> <<"s","t","a","r","t","D","a","t","e">>
      [] f = "endDate" -> <<"e","n","d","D","a","t","e">>
      [] f = "paymentTerms" -> <<"p","a","y","m","e","n","t","T","e","r","m","s">>
      [] f = "projectName" -> <<"p","r","o","j","e","c","t","N","a","m","e">>
      [] f = "date" -> <<"d","a","t","e">>
      [] f = "customerEmail" -> <<"c","u","s","t","o","m","e","r","E","m","a","i","l">>
      [] f = "amount" -> <<"a","m","o","u","n","t">>
      [] f = "description" -> <<"d","e","s","c","r","i","p","t","i","o","n">>

\* --- regular expressions: sequences of quantified character classes ---

Digits == {"0","1","2","3","4","5","6","7","8","9"}

WordChars == Digits \cup Range(UpperCase) \cup Range(LowerCase) \cup {"_"}

\* the dollar, euro, pound and yen signs (the last three written as names)
CurrencySymbols == {"$", "euro", "pound", "yen"}

\* membership of a character in a class of the expressions used below
InClass(ch, cls) ==
    CASE cls = "digit" -> ch \in Digits                       \* \d
      [] cls = "space" -> ch \in WhiteSpace                   \* \s
      [] cls = "word" -> ch \in WordChars                     \* \w
      [] cls = "noSpaceAt" -> ch \notin WhiteSpace \cup {"@"} \* [^\s@]
      [] cls = "currency" -> ch \in CurrencySymbols           \* [\$...]
      [] cls = "commaDigit" -> ch \in Digits \cup {","}       \* [,\d]
      [] OTHER -> ch = cls                                    \* a literal

\* an item: between lo and hi characters of class cls (hi = -1: unbounded)
Item(cls, lo, hi) == [cls |-> cls, lo |-> lo, hi |-> hi]
One(cls) == Item(cls, 1, 1)
Opt(cls) == Item(cls, 0, 1)
Many(cls) == Item(cls, 0, -1)
Some(cls) == Item(cls, 1, -1)

RECURSIVE RunLength(_, _, _)
\* the number of consecutive characters of class cls in s from position i on
RunLength(s, i, cls) ==
    IF i > Len(s) \/ ~InClass(s[i], cls) THEN 0 ELSE 1 + RunLength(s, i + 1, cls)

RECURSIVE MatchFrom(_, _, _, _)
\* s from position i on matches the items k.. of pat, up to the end of s
MatchFrom(s, i, pat, k) ==
    IF k > Len(pat) THEN i = Len(s) + 1
    ELSE LET run == RunLength(s, i, pat[k].cls)
             top == IF pat[k].hi = -1 \/ pat[k].hi > run THEN run ELSE pat[k].hi
         IN  \E n \in pat[k].lo..top : MatchFrom(s, i + n, pat, k + 1)

\* ^pat$ tested on s
Matches(s, pat) == MatchFrom(s, 1, pat, 1)

\* variant: a word without an at sign is accepted too
emailRegex_Lenient ==
    { <<Some("noSpaceAt")>>,
      <<Some("noSpaceAt"), One("@"), Some("noSpaceAt"), One("."), Some("noSpaceAt")>> }

\* /^[^\s@]+@[^\s@]+\.[^\s@]+$/
emailRegex == { <<Some("noSpaceAt"), One("@"), Some("noSpaceAt"), One("."), Some("noSpaceAt")>> }

\* variant: only the slash-separated date format is accepted
dateRegex_SlashOnly ==
    { <<Item("digit", 1, 2), One("/"), Item("digit", 1, 2), One("/"), Item("digit", 4, 4)>> }

\* /^(\d{4}-\d{2}-\d{2}|\d{1,2}\/\d{1,2}\/\d{4}|\d{1,2}-\d{1,2}-\d{4}|\w+\s+\d{1,2},?\s+\d{4})$/
dateRegex ==
    { <<Item("digit", 4, 4), One("-"), Item("digit", 2, 2), One("-"), Item("digit", 2, 2)>>,
      <<Item("digit", 1, 2), One("/"), Item("digit", 1, 2), One("/"), Item("digit", 4, 4)>>,
      <<Item("digit", 1, 2), One("-"), Item("digit", 1, 2), One("-"), Item("digit", 4, 4)>>,
      <<Some("word"), Some("space"), Item("digit", 1, 2), Opt(","), Some("space"),
        Item("digit", 4, 4)>> }

\* /^[\$...]?\s*\d+([,\d]*)?(\.\d{2})?$|^\d+([,\d]*)?(\.\d{2})?\s*[\$...]?$/
\* with the optional group (\.\d{2})? written out as two alternatives
amountRegex ==
    { <<Opt("currency"), Many("space"), Some("digit"), Many("commaDigit")>>,
      <<Opt("currency"), Many("space"), Some("digit"), Many("commaDigit"),
        One("."), Item("digit", 2, 2)>>,
      <<Some("digit"), Many("commaDigit"), Many("space"), Opt("currency")>>,
      <<Some("digit"), Many("commaDigit"), One("."), Item("digit", 2, 2),
        Many("space"), Opt("currency")>> }

\* regex.test(s)
test(regex, s) == \E pat \in regex : Matches(s, pat)

\* --- the function ---

sNotFound     == <<"n","o","t"," ","f","o","u","n","d">>
sUnknown      == <<"u","n","k","n","o","w","n">>
sNotSpecified == <<"n","o","t"," ","s","p","e","c","i","f","i","e","d">>
sNA           == <<"n","/","a">>
sNull         == <<"n","u","l","l">>
sPlaceholder  == <<"p","l","a","c","e","h","o","l","d","e","r">>
sExample      == <<"e","x","a","m","p","l","e">>
sEmail        == <<"e","m","a","i","l">>
sEmailCap     == <<"E","m","a","i","l">>
sDate         == <<"d","a","t","e">>
sDateCap      == <<"D","a","t","e">>
sAmount       == <<"a","m","o","u","n","t">>
sAmountCap    == <<"A","m","o","u","n","t">>
sTotal        == <<"t","o","t","a","l">>
sNumber       == <<"n","u","m","b","e","r">>
sNumberCap    == <<"N","u","m","b","e","r">>

\* value && typeof value === 'string'
truthyString(v) == IsString(v) /\ v.s # <<>>

\* docData[field]
Get(docData, k) == IF k \in DOMAIN docData THEN docData[k] ELSE Undefined

\* !data || typeof data !== 'object' is false: arrays and objects
isObject(data) == data.kind \in {"array", "object"}

\* the case of switch (docData.documentType) that is taken, "none" for default
schemaCategory(v) ==
    IF v = Str(TypeName("invoice")) THEN "invoice"
    ELSE IF v = Str(TypeName("contract")) THEN "contract"
    ELSE IF v = Str(TypeName("receipt")) THEN "receipt"
    ELSE "none"

expectedFields(c) ==
    CASE c = "invoice" -> <<"client", "invoiceNumber", "totalAmount", "currency", "dueDate">>
      [] c = "contract" -> <<"clientName", "startDate", "endDate", "paymentTerms", "projectName">>
      [] c = "receipt" -> <<"date", "customerEmail", "amount", "description">>

\* variant: the fields of the schema are optional
keyIssues_Optional(k, v) ==
    IF v.t = "undefined" THEN <<>>
    ELSE IF ~IsString(v) THEN << <<k, "Expected string">> >>
    ELSE IF k # "extractedAt" /\ Len(v.s) < 1 THEN << <<k, "is required">> >>
    ELSE <<>>

\* the issues of schema.safeParse(data), in the order of the schema's keys
keyIssues(k, v) ==
    IF v.t = "undefined" THEN << <<k, "Required">> >>
    ELSE IF ~IsString(v) THEN << <<k, "Expected string">> >>
    ELSE IF k # "extractedAt" /\ Len(v.s) < 1 THEN << <<k, "is required">> >>
    ELSE <<>>

RECURSIVE Flatten(_)
Flatten(seqs) == IF seqs = <<>> THEN <<>> ELSE Head(seqs) \o Flatten(Tail(seqs))

schemaIssues(c, docData) ==
    LET keys == <<"extractedAt">> \o expectedFields(c)
    IN  Flatten([i \in 1..Len(keys) |-> keyIssues(keys[i], Get(docData, keys[i]))])

\* variant: the sentinels are compared without lower-casing the value
isPresent_CaseSensitive(v) ==
    /\ truthyString(v)
    /\ trim(v.s) # <<>>
    /\ v.s # sNotFound
    /\ v.s # sUnknown
    /\ v.s # sNotSpecified

\* the filter of presentFields
isPresent(v) ==
    /\ truthyString(v)
    /\ trim(v.s) # <<>>
    /\ toLowerCase(v.s) # sNotFound
    /\ toLowerCase(v.s) # sUnknown
    /\ toLowerCase(v.s) # sNotSpecified

\* variant: the sentinel of the fallback prompt is not in the list
isAccurate_NoUnknown(v) ==
    /\ truthyString(v)
    /\ trim(v.s) # <<>>
    /\ LET cleanValue == toLowerCase(trim(v.s))
       IN  /\ cleanValue # sNotFound
           /\ cleanValue # sNotSpecified
           /\ cleanValue # sNA
           /\ cleanValue # sNull
           /\ Len(trim(v.s)) > 1

\* variant: only the length of the trimmed value is tested
isAccurate_LengthOnly(v) ==
    /\ truthyString(v)
    /\ trim(v.s) # <<>>
    /\ Len(trim(v.s)) > 1

\* the test that increments fieldAccuracyCount
isAccurate(v) ==
    /\ truthyString(v)
    /\ trim(v.s) # <<>>
    /\ LET cleanValue == toLowerCase(trim(v.s))
       IN  /\ cleanValue # sNotFound
           /\ cleanValue # sUnknown
           /\ cleanValue # sNotSpecified
           /\ cleanValue # sNA
           /\ cleanValue # sNull
           /\ Len(trim(v.s)) > 1

\* the branch of the format checks a field name selects
formatKind(field) ==
    LET name == FieldChars(field)
    IN  IF includes(name, sEmail) \/ includes(name, sEmailCap) THEN "email"
        ELSE IF includes(name, sDate) \/ includes(name, sDateCap) THEN "date"
        ELSE IF includes(name, sAmount) \/ includes(name, sAmountCap)
                \/ includes(name, sTotal) THEN "amount"
        ELSE IF includes(name, sNumber) \/ includes(name, sNumberCap) THEN "number"
        ELSE "general"

\* variant: a sentinel is checked like any other value
formatCheck_CountsPlaceholders(field, v) ==
    IF ~(truthyString(v) /\ trim(v.s) # <<>>) THEN "skip"
    ELSE LET kind == formatKind(field)
             len == Len(trim(v.s))
         IN  IF kind = "email"
                  THEN IF test(emailRegex, trim(v.s)) THEN "ok" ELSE "Invalid email format"
             ELSE IF kind = "date"
                  THEN IF test(dateRegex, trim(v.s)) THEN "ok" ELSE "Unusual date format"
             ELSE IF kind = "amount"
                  THEN IF test(amountRegex, trim(v.s)) THEN "ok"
                       ELSE "Currency format could be improved"
             ELSE IF kind = "number"
                  THEN IF len >= 2 /\ len <= 50 THEN "ok" ELSE "Unusual number format"
             ELSE IF len >= 2 /\ len <= 200 THEN "ok" ELSE "Unusual content length"

\* the format check of one field: "skip" (not counted), "ok", or the issue pushed
formatCheck(field, v) ==
    IF ~(truthyString(v) /\ trim(v.s) # <<>>) THEN "skip"
    ELSE LET cleanValue == toLowerCase(trim(v.s))
             kind == formatKind(field)
             len == Len(trim(v.s))
         IN  IF cleanValue = sNotFound \/ cleanValue = sUnknown \/ cleanValue = sNotSpecified
             THEN "skip"
             ELSE IF kind = "email"
                  THEN IF test(emailRegex, trim(v.s)) THEN "ok" ELSE "Invalid email format"
             ELSE IF kind = "date"
                  THEN IF test(dateRegex, trim(v.s)) THEN "ok" ELSE "Unusual date format"
             ELSE IF kind = "amount"
                  THEN IF test(amountRegex, trim(v.s)) THEN "ok"
                       ELSE "Currency format could be improved"
             ELSE IF kind = "number"
                  THEN IF len >= 2 /\ len <= 50 THEN "ok" ELSE "Unusual number format"
             ELSE IF len >= 2 /\ len <= 200 THEN "ok" ELSE "Unusual content length"

\* the quality points of one field
qualityPointsOf(v) ==
    IF ~truthyString(v) THEN 0
    ELSE LET cleanValue == toLowerCase(trim(v.s))
         IN  (IF cleanValue # <<>> THEN 1 ELSE 0)
           + (IF /\ cleanValue # sNotFound
                 /\ cleanValue # sUnknown
                 /\ cleanValue # sNotSpecified
                 /\ cleanValue # sNA THEN 1 ELSE 0)
           + (IF /\ Len(cleanValue) >= 2
                 /\ Len(cleanValue) <= 100
                 /\ cleanValue # sNotFound
                 /\ cleanValue # sUnknown
                 /\ ~includes(cleanValue, sPlaceholder)
                 /\ ~includes(cleanValue, sExample) THEN 1 ELSE 0)

RECURSIVE SumOver(_, _, _)
\* the sum of qualityPointsOf over the fields i..
SumOver(docData, fields, i) ==
    IF i > Len(fields) THEN 0
    ELSE qualityPointsOf(Get(docData, fields[i])) + SumOver(docData, fields, i + 1)

\* the warnings pushed for one field by the quality checks
fieldWarnings(field, v) ==
    IF ~truthyString(v) THEN << <<field, "is missing or invalid type">> >>
    ELSE LET cleanValue == toLowerCase(trim(v.s))
         IN  (IF cleanValue = sNotFound \/ cleanValue = sUnknown \/ cleanValue = sNotSpecified
              THEN << <<field, "has placeholder value">> >> ELSE <<>>)
          \o (IF Len(cleanValue) < 2
              THEN << <<field, "has very short content">> >> ELSE <<>>)

weights == [completeness |-> 35, fieldAccuracy |-> 30, formatCompliance |-> 20, dataQuality |-> 15]

Min(a, b) == IF a < b THEN a ELSE b
Max(a, b) == IF a > b THEN a ELSE b

\* const result = {...} at the top of the function; exception is the error
\* the returned promise rejects with ("none": it resolves with the result)
initialResult ==
    [isValid |-> FALSE, score |-> 0, completeness |-> 0, fieldAccuracy |-> 0,
     formatCompliance |-> 0, dataQuality |-> 0, extractionConfidence |-> 0,
     errors |-> <<>>, warnings |-> <<>>, qualityIssues |-> <<>>, fieldCount |-> 0,
     missingFields |-> <<>>, documentType |-> Str(sUnknown),
     scorerCalls |-> 0, exception |-> "none"]

\* variant: the inner catch rethrows the scorer's error
catchScorerError_Rethrow(res) == [res EXCEPT !.exception = "scorerError"]

\* catch (scorerError) { result.warnings.push(...) }
catchScorerError(res) ==
    [res EXCEPT !.warnings = Append(@, <<"scorer", "LLM-based confidence evaluation failed">>)]

\* catch (error) { result.errors.push(`Evaluation failed: ${error}`); return result }
outerCatch(res) ==
    [res EXCEPT !.errors = Append(@, <<"", "Evaluation failed">>), !.exception = "none"]

\* lines 138-273: the four sub-scores, missingFields and qualityIssues
withHeuristics(res, c, docData) ==
    LET fields == expectedFields(c)
        n == Len(fields)
        presentFields == SelectSeq(fields, LAMBDA f : isPresent(Get(docData, f)))
        fieldAccuracyCount == Cardinality({i \in 1..n : isAccurate(Get(docData, fields[i]))})
        checks == [i \in 1..n |-> formatCheck(fields[i], Get(docData, fields[i]))]
        formatChecksTotal == Cardinality({i \in 1..n : checks[i] # "skip"})
        formatComplianceCount == Cardinality({i \in 1..n : checks[i] = "ok"})
        failing == SelectSeq([i \in 1..n |-> i], LAMBDA i : checks[i] \notin {"skip", "ok"})
        qualityPoints == SumOver(docData, fields, 1)
        maxQualityPoints == n * 3
    IN  [res EXCEPT
            !.completeness = Percent(Len(presentFields), n),
            !.missingFields = SelectSeq(fields, LAMBDA f : ~isPresent(Get(docData, f))),
            !.fieldAccuracy = IF n > 0 THEN Percent(fieldAccuracyCount, n) ELSE 0,
            !.formatCompliance = IF formatChecksTotal > 0
                                 THEN Percent(formatComplianceCount, formatChecksTotal)
                                 ELSE 100 * Point,
            !.qualityIssues = [j \in 1..Len(failing) |->
                                 <<fields[failing[j]], checks[failing[j]]>>],
            !.dataQuality = IF maxQualityPoints > 0
                            THEN Percent(qualityPoints, maxQualityPoints) ELSE 0]

\* variant: a query is enough for the relevancy measurement
wantsScorer_QueryOnly(srcText, query) == truthyString(query)

\* if (originalText && inputQuery): both are non-empty strings
wantsScorer(srcText, query) == truthyString(srcText) /\ truthyString(query)

\* lines 275-287: the optional relevancy measurement; measure is what
\* answerRelevancy.measure does when it is called
withConfidence(res, srcText, query, measure) ==
    IF wantsScorer(srcText, query)
    THEN IF measure.ok
         THEN [res EXCEPT !.scorerCalls = @ + 1,
                          !.extractionConfidence = measure.percent * Point]
         ELSE catchScorerError([res EXCEPT !.scorerCalls = @ + 1])
    ELSE res

\* lines 289-333: the warnings of the quality checks and the overall score
withScore(res, c, docData) ==
    LET fields == expectedFields(c)
        warnings == res.warnings \o
            Flatten([i \in 1..Len(fields) |-> fieldWarnings(fields[i], Get(docData, fields[i]))])
        heuristic == (res.completeness * weights.completeness
                      + res.fieldAccuracy * weights.fieldAccuracy
                      + res.formatCompliance * weights.formatCompliance
                      + res.dataQuality * weights.dataQuality) \div 100
        baseScore == IF res.extractionConfidence > 0
                     THEN (heuristic * 9) \div 10 + res.extractionConfidence \div 10
                     ELSE heuristic
        warningPenalty == Len(warnings) * 2 * Point
        errorPenalty == Len(res.errors) * 8 * Point
    IN  [res EXCEPT !.warnings = warnings,
                    !.score = Max(0, Min(100 * Point, baseScore - warningPenalty - errorPenalty))]

\* the try block for an object of a supported type
evaluateRecord(res, c, docData, srcText, query, measure) ==
    LET issues == schemaIssues(c, docData)
        validated == [res EXCEPT !.isValid = (issues = <<>>), !.errors = @ \o issues]
        measured == withConfidence(withHeuristics(validated, c, docData),
                                   srcText, query, measure)
    IN  IF measured.exception # "none" THEN outerCatch(measured)
        ELSE withScore(measured, c, docData)

\* variant: an unknown documentType is evaluated as a receipt
supportedCategory_Default(v) == IF schemaCategory(v) = "none" THEN "receipt" ELSE schemaCategory(v)

\* the schema the switch selects, "none" when it returns with an error
supportedCategory(v) == schemaCategory(v)

evaluateExtractedData(data, srcText, query, measure) ==
    IF ~isObject(data)
    THEN [initialResult EXCEPT
            !.errors = << <<"", "Invalid data structure: not an object">> >>]
    ELSE LET docData == data.props
             declared == Get(docData, "documentType")
             res == [initialResult EXCEPT
                        !.fieldCount = Cardinality(KeysOf(docData)),
                        !.documentType = IF declared.t = "undefined" \/ declared = Str(<<>>)
                                         THEN Str(sUnknown) ELSE declared]
             c == supportedCategory(declared)
         IN  IF c = "none"
             THEN [res EXCEPT !.errors = << <<"", "Unsupported document type">> >>]
             ELSE evaluateRecord(res, c, docData, srcText, query, measure)

\* --- the calls of the function ---

Repeat(ch, n) == [i \in 1..n |-> ch]

sentinelUnknown == <<"U","n","k","n","o","w","n">>
vAcme == <<"A","c","m","e"," ","C","o","r","p">>
vIsoDate == <<"2","0","2","5","-","0","8","-","0","1">>
vEmail == <<"a","@","b",".","c","o">>
vAmount == <<"$","1","0">>
vNumber == <<"I","N","V","-","4","2">>

\* a well-formed value for a field, by the kind of its format check
Good(f) ==
    CASE formatKind(f) = "email" -> Str(vEmail)
      [] formatKind(f) = "date" -> Str(vIsoDate)
      [] formatKind(f) = "amount" -> Str(vAmount)
      [] formatKind(f) = "number" -> Str(vNumber)
      [] OTHER -> Str(vAcme)

\* the values a field of the evaluated data is drawn from
FieldValues ==
    { Undefined, NonString, Str(<<>>), Str(<<" ">>),
      Str(<<"N","o","t"," ","f","o","u","n","d">>), Str(<<"N","O","T"," ","F","O","U","N","D">>),
      Str(<<"N","o","t"," ","s","p","e","c","i","f","i","e","d">>), Str(<<"n","o","t"," ","s","p","e","c","i","f","i","e","d">>),
      Str(<<"U","n","k","n","o","w","n">>), Str(<<"U","N","K","N","O","W","N">>), Str(<<" ","U","n","k","n","o","w","n"," ">>),
      Str(<<"N","/","A">>), Str(<<"n","u","l","l">>), Str(<<"x">>),
      Str(vAcme), Str(vIsoDate), Str(<<"A","u","g"," ","1",","," ","2","0","2","5">>), Str(<<"8","/","1","/","2","0","2","5">>),
      Str(vEmail), Str(<<"n","o","t","-","a","n","-","e","m","a","i","l">>),
      Str(vAmount), Str(<<"$","1",",","2","0","0",".","0","0">>), Str(<<"1","0","$">>), Str(<<"U","S","D"," ","1","0">>),
      Str(vNumber), Str(<<"e","x","a","m","p","l","e"," ","c","o","r","p">>),
      Str(Repeat("x", 51)), Str(Repeat("x", 101)), Str(Repeat("x", 201)) }

\* field maps in which the first k fields hold the fallback sentinel and the
\* others are well-formed
CommonFields(c) ==
    {[f \in RequiredFields(c) |->
        IF \E i \in 1..k : schemaFields(c)[i] = f THEN Str(sentinelUnknown) ELSE Good(f)] :
        k \in 0..Len(schemaFields(c))}

\* field maps: a common one with any value in one field, or one value everywhere
FieldMaps(c) ==
    {[g EXCEPT ![f] = v] : g \in CommonFields(c), f \in RequiredFields(c), v \in FieldValues}
        \cup {[f \in RequiredFields(c) |-> v] : v \in FieldValues}

ObjectData(props) == [kind |-> "object", props |-> props]

RecordData(c, g, ea) ==
    ObjectData([k \in SchemaKeys(c) |->
                    CASE k = "documentType" -> Str(TypeName(c))
                      [] k = "extractedAt" -> ea
                      [] OTHER -> g[k]])

\* objects that declare category c: extractedAt is a string, or it is missing
\* or of another type in an object with common fields
RecordsOf(c) ==
    {RecordData(c, g, Str(Now)) : g \in FieldMaps(c)}
        \cup {RecordData(c, g, ea) : g \in CommonFields(c), ea \in {Undefined, NonString}}

\* objects whose documentType selects no schema
UntypedObjects ==
    {ObjectData([k \in SchemaKeys("invoice") |->
                    CASE k = "documentType" -> dt
                      [] k = "extractedAt" -> Str(Now)
                      [] OTHER -> Good(k)]) :
        dt \in {Undefined, NonString, Str(<<>>), Str(<<"m","e","m","o">>), Str(<<"I","n","v","o","i","c","e">>)}}
        \cup {ObjectData(NoRecord)}

\* values that are no objects, and an array
OtherData ==
    {[kind |-> k, props |-> NoRecord] : k \in {"undefined", "null", "number", "string", "array"}}

EvalData == OtherData \cup UntypedObjects \cup UNION {RecordsOf(c) : c \in Categories}

vSourceText == <<"I","N","V","O","I","C","E"," ","#","4","2">>
vQuery == <<"E","x","t","r","a","c","t"," ","s","t","r","u","c","t","u","r","e","d"," ","d","a","t","a">>

\* the (originalText, inputQuery) pairs of a call
EvalArguments ==
    { <<Undefined, Undefined>>, <<Undefined, Str(vQuery)>>, <<Str(vSourceText), Undefined>>,
      <<Str(<<>>), Str(vQuery)>>, <<Str(vSourceText), Str(<<>>)>>,
      <<Str(vSourceText), Str(vQuery)>> }

\* what answerRelevancy.measure does: it was not called, rejected, or resolved
\* with a score given here in percent
NotCalled == [called |-> FALSE, ok |-> FALSE, percent |-> 0]
Rejected  == [called |-> TRUE, ok |-> FALSE, percent |-> 0]
Resolved(p) == [called |-> TRUE, ok |-> TRUE, percent |-> p]

ScorerPercents == {0, 50, 100}

\* the call gets as far as the relevancy measurement
reachesScorer(data, text, query) ==
    /\ isObject(data)
    /\ supportedCategory(Get(data.props, "documentType")) # "none"
    /\ wantsScorer(text, query)

EvalInit ==
    /\ evalData \in EvalData
    /\ \E a \in EvalArguments : originalText = a[1] /\ inputQuery = a[2]
    /\ epc = "call"
    /\ scorer = NotCalled
    /\ result = initialResult

EvalIdle ==
    /\ evalData = [kind |-> "undefined", props |-> NoRecord]
    /\ originalText = Undefined
    /\ inputQuery = Undefined
    /\ epc = "idle"
    /\ scorer = NotCalled
    /\ result = initialResult

\* a call that returns without awaiting the scorer
EvaluateWithoutScorer ==
    /\ epc = "call"
    /\ ~reachesScorer(evalData, originalText, inputQuery)
    /\ result' = evaluateExtractedData(evalData, originalText, inputQuery, NotCalled)
    /\ epc' = "done"
    /\ UNCHANGED <<evalData, originalText, inputQuery, scorer>>

\* a call whose relevancy measurement resolves
EvaluateScorerResolves ==
    /\ epc = "call"
    /\ reachesScorer(evalData, originalText, inputQuery)
    /\ \E p \in ScorerPercents :
        /\ scorer' = Resolved(p)
        /\ result' = evaluateExtractedData(evalData, originalText, inputQuery, Resolved(p))
    /\ epc' = "done"
    /\ UNCHANGED <<evalData, originalText, inputQuery>>

\* a call whose relevancy measurement rejects
EvaluateScorerRejects ==
    /\ epc = "call"
    /\ reachesScorer(evalData, originalText, inputQuery)
    /\ scorer' = Rejected
    /\ result' = evaluateExtractedData(evalData, originalText, inputQuery, Rejected)
    /\ epc' = "done"
    /\ UNCHANGED <<evalData, originalText, inputQuery>>

EvalNext ==
    \/ EvaluateWithoutScorer /\ UNCHANGED <<extractVars, classifyVars, storeVars, batchVars>>
    \/ EvaluateScorerResolves /\ UNCHANGED <<extractVars, classifyVars, storeVars, batchVars>>
    \/ EvaluateScorerRejects /\ UNCHANGED <<extractVars, classifyVars, storeVars, batchVars>>

----------------------------------------------------------------------------
(* The JSON database (utils/jsonDatabase) and the steps that append to it *)

MaxDocuments == 2
MaxClock == 2

\* the operating-system processes that run a pipeline against the same file
Procs == {1, 2}

\* Math.random() in generateId
Randoms == {"r"}

\* the database loadDatabase creates when there is no readable file
newDatabase(now) ==
    [createdAt |-> now, lastUpdated |-> now, totalDocuments |-> 0, documents |-> <<>>,
     statistics |-> [invoices |-> 0, contracts |-> 0, receipts |-> 0]]

\* the file outputs/documents_database.json
NoFile == [exists |-> FALSE, parses |-> FALSE, content |-> newDatabase(0)]
FileOf(database) == [exists |-> TRUE, parses |-> TRUE, content |-> database]

\* variant: what the damaged file held is recovered
loadDatabase_Recovers(file, now) ==
    IF file.exists THEN file.content ELSE newDatabase(now)

\* loadDatabase: the parsed file, or a new database when the file does not
\* exist or JSON.parse throws
loadDatabase(file, now) ==
    IF file.exists /\ file.parses THEN file.content ELSE newDatabase(now)

\* Date.now().toString(36) + Math.random().toString(36).substr(2)
generateId(now, rnd) == <<now, rnd>>

\* extractedData as stored: an object, or undefined
UndefinedData == [kind |-> "undefined", props |-> NoRecord]

\* typeof extractedData === 'object' && extractedData !== null
\*     ? Object.keys(extractedData).length : 0
fieldCount(data) ==
    IF data.kind \in {"object", "array"} THEN Cardinality(KeysOf(data.props)) ELSE 0

\* switch (documentType) of addToJSONDatabase
bumpStatistics(statistics, documentType) ==
    IF documentType = TypeName("invoice") THEN [statistics EXCEPT !.invoices = @ + 1]
    ELSE IF documentType = TypeName("contract") THEN [statistics EXCEPT !.contracts = @ + 1]
    ELSE IF documentType = TypeName("receipt") THEN [statistics EXCEPT !.receipts = @ + 1]
    ELSE statistics

\* the database addToJSONDatabase writes: the loaded one with the new record
\* pushed, the total recomputed and the count of the type incremented
withRecord(database, extractedData, documentType, extractedFields, now, rnd) ==
    LET record == [id |-> generateId(now, rnd), processedAt |-> now,
                   documentType |-> documentType, extractedData |-> extractedData,
                   extractedFields |-> extractedFields]
        documents == Append(database.documents, record)
    IN  [database EXCEPT !.documents = documents,
                         !.totalDocuments = Len(documents),
                         !.lastUpdated = now,
                         !.statistics = bumpStatistics(@, documentType)]

\* getDatabaseStats: { ...database.statistics, total: database.totalDocuments }
getDatabaseStats(database) ==
    [invoices |-> database.statistics.invoices, contracts |-> database.statistics.contracts,
     receipts |-> database.statistics.receipts, total |-> database.totalDocuments]

\* Array.prototype.slice(0, n)
slice0(s, n) == SubSeq(s, 1, Min(n, Len(s)))

\* one step of the stable sort: r goes after the records not older than it
insertNewestFirst(sorted, r) ==
    LET k == Cardinality({i \in 1..Len(sorted) : sorted[i].processedAt >= r.processedAt})
    IN  SubSeq(sorted, 1, k) \o <<r>> \o SubSeq(sorted, k + 1, Len(sorted))

RECURSIVE sortPrefix(_, _)
sortPrefix(s, n) ==
    IF n = 0 THEN <<>> ELSE insertNewestFirst(sortPrefix(s, n - 1), s[n])

\* .sort((a, b) => new Date(b.processedAt).getTime() - new Date(a.processedAt).getTime())
\* (processedAt is kept as the millisecond count its ISO string stands for)
sortNewestFirst(s) == sortPrefix(s, Len(s))

\* getRecentDocuments: sort, then slice
getRecentDocuments(database, limit) == slice0(sortNewestFirst(database.documents), limit)

\* a limit argument: undefined, or a number
NoLimit == [given |-> FALSE, n |-> 0]
Limit(n) == [given |-> TRUE, n |-> n]

\* searchDocuments: filter by type, slice to the limit, then sort
searchDocuments(database, documentType, limit) ==
    LET filtered == IF truthyString(documentType)
                    THEN SelectSeq(database.documents,
                                   LAMBDA doc : doc.documentType = documentType.s)
                    ELSE database.documents
        limited == IF limit.given /\ limit.n # 0 THEN slice0(filtered, limit.n) ELSE filtered
    IN  sortNewestFirst(limited)

\* what an extraction tool returns for a document of category c
ToolResults(c) ==
    {AttemptRecord(c, r) :
        r \in {x \in {Reply("object", [k \in ObjectKeys(c) |->
                        IF k \in RequiredFields(c) THEN Str(NotFoundText) ELSE Undefined])} :
                 AttemptError(c, x) = NoError}}

\* classificationResult.text in pdfUrlTool
ToolReplies ==
    {<<"I","n","v","o","i","c","e">>, <<"c","o","n","t","r","a","c","t">>, <<" ","r","e","c","e","i","p","t",".">>, <<"u","n","k","n","o","w","n">>}

\* the tool pdfUrlTool selects: the first category name docType includes
toolCategory(docType) ==
    IF includes(docType, TypeName("invoice")) THEN "invoice"
    ELSE IF includes(docType, TypeName("contract")) THEN "contract"
    ELSE IF includes(docType, TypeName("receipt")) THEN "receipt"
    ELSE "none"

\* a call of addToJSONDatabase in process p: not running, or between its
\* loadDatabase and its saveDatabase
NotAppending ==
    [pc |-> "idle", database |-> newDatabase(0), extractedData |-> UndefinedData,
     documentType |-> <<>>, extractedFields |-> 0]

Loaded(database, extractedData, documentType) ==
    [pc |-> "loaded", database |-> database, extractedData |-> extractedData,
     documentType |-> documentType, extractedFields |-> fieldCount(extractedData)]

NoQuery == [asked |-> FALSE, documentType |-> Undefined, limit |-> NoLimit, results |-> <<>>]

QueryTypes == {Undefined} \cup {Str(TypeName(c)) : c \in Categories}
QueryLimits == {NoLimit, Limit(0), Limit(1), Limit(2)}

StoreInit ==
    /\ dbFile = NoFile
    /\ clock = 0
    /\ appending = [p \in Procs |-> NotAppending]
    /\ lastSearch = NoQuery

StoreIdle ==
    /\ dbFile = NoFile
    /\ clock = 0
    /\ appending = [p \in Procs |-> NotAppending]
    /\ lastSearch = NoQuery

\* a call of addToJSONDatabase may start
MayAppend(p) ==
    /\ lastSearch = NoQuery
    /\ appending[p].pc = "idle"
    /\ Len(loadDatabase(dbFile, clock).documents) < MaxDocuments

\* saveToJSONDatabase.execute of docParseWorkflow, up to loadDatabase: the
\* step gets the category of classifyDocument and the record of the tool
DocParseSave(p) ==
    /\ MayAppend(p)
    /\ \E c \in Categories : \E d \in ToolResults(c) :
        appending' = [appending EXCEPT ![p] =
            Loaded(loadDatabase(dbFile, clock), ObjectData(d), TypeName(c))]
    /\ UNCHANGED <<dbFile, clock, lastSearch>>

\* saveToDatabase.execute of pdfUrlWorkflow, up to loadDatabase
UrlWorkflowSave(p) ==
    /\ MayAppend(p)
    /\ \E c \in Categories : \E d \in ToolResults(c) :
        appending' = [appending EXCEPT ![p] =
            Loaded(loadDatabase(dbFile, clock), ObjectData(d), TypeName(c))]
    /\ UNCHANGED <<dbFile, clock, lastSearch>>

\* pdfUrlTool.execute from the classification reply up to loadDatabase: the
\* tool of the first category named in the reply, or none, then the save
\* with docType as the document type
UrlToolSave(p) ==
    /\ MayAppend(p)
    /\ \E t \in ToolReplies :
        LET docType == trim(toLowerCase(t))
            c == toolCategory(docType)
        IN  \E data \in (IF c = "none" THEN {UndefinedData}
                         ELSE {ObjectData(d) : d \in ToolResults(c)}) :
                appending' = [appending EXCEPT ![p] =
                    Loaded(loadDatabase(dbFile, clock), data, docType)]
    /\ UNCHANGED <<dbFile, clock, lastSearch>>

\* addToJSONDatabase from the creation of the record to saveDatabase
AddToJSONDatabaseSaves(p) ==
    /\ lastSearch = NoQuery
    /\ appending[p].pc = "loaded"
    /\ \E rnd \in Randoms :
        dbFile' = FileOf(withRecord(appending[p].database, appending[p].extractedData,
                                    appending[p].documentType, appending[p].extractedFields,
                                    clock, rnd))
    /\ appending' = [appending EXCEPT ![p] = NotAppending]
    /\ UNCHANGED <<clock, lastSearch>>

\* time passes
Tick ==
    /\ lastSearch = NoQuery
    /\ clock < MaxClock
    /\ clock' = clock + 1
    /\ UNCHANGED <<dbFile, appending, lastSearch>>

\* a call of searchDocuments (the last step of a behaviour), made while no
\* append is between its load and its save
Search ==
    /\ lastSearch = NoQuery
    /\ \A p \in Procs : appending[p].pc = "idle"
    /\ \E documentType \in QueryTypes, limit \in QueryLimits :
        lastSearch' = [asked |-> TRUE, documentType |-> documentType, limit |-> limit,
                  results |-> searchDocuments(loadDatabase(dbFile, clock), documentType, limit)]
    /\ UNCHANGED <<dbFile, clock, appending>>

StoreNext ==
    \/ \E p \in Procs : DocParseSave(p) /\ UNCHANGED <<extractVars, classifyVars, evalVars, batchVars>>
    \/ \E p \in Procs : UrlWorkflowSave(p) /\ UNCHANGED <<extractVars, classifyVars, evalVars, batchVars>>
    \/ \E p \in Procs : UrlToolSave(p) /\ UNCHANGED <<extractVars, classifyVars, evalVars, batchVars>>
    \/ \E p \in Procs : AddToJSONDatabaseSaves(p) /\ UNCHANGED <<extractVars, classifyVars, evalVars, batchVars>>
    \/ Tick /\ UNCHANGED <<extractVars, classifyVars, evalVars, batchVars>>
    \/ Search /\ UNCHANGED <<extractVars, classifyVars, evalVars, batchVars>>

----------------------------------------------------------------------------
(* The orchestrators: processDirectory and main with processPdfFile and    *)
(* docParseWorkflow, and pdfUrlWorkflow                                    *)

MaxFiles == 2

Runners == {"processDirectory", "main", "pdfUrlWorkflow"}

\* stats as constructed by processDirectory (total 0) and by main (total 1)
newStats(total) == [total |-> total, success |-> 0, errors |-> 0]

NewFile == [steps |-> <<>>, success |-> 0, errors |-> 0]
NoCarried == [text |-> <<>>, documentType |-> "none", extractedData |-> UndefinedData]

\* history: a step ran and succeeded (ok) or threw
ran(log, name, ok) == [log EXCEPT !.steps = Append(@, [name |-> name, ok |-> ok])]

\* variant: a step of a workflow hands on to the next whatever happened
then_Always(ok, next) == next

\* .then(step): the next step runs once this one has returned; a step that
\* throws ends the run with status 'failed'
then(ok, next) == IF ok THEN next ELSE "failed"

\* variant: the loop stops at the first file that was not processed
loopAfter_StopOnFailure(returned, index, count) ==
    IF returned /\ index < count
    THEN [ppc |-> "validate", fileIndex |-> index + 1]
    ELSE [ppc |-> "summary", fileIndex |-> index]

\* for (const file of pdfFiles) { await processPdfFile(...) }: what
\* processPdfFile returned is not looked at
loopAfter(returned, index, count) ==
    IF index < count
    THEN [ppc |-> "validate", fileIndex |-> index + 1]
    ELSE [ppc |-> "summary", fileIndex |-> index]

\* where the run goes once processPdfFile has returned
afterFile(returned) ==
    IF runner = "processDirectory" THEN loopAfter(returned, fileIndex, pdfFiles)
    ELSE [ppc |-> "exit", fileIndex |-> fileIndex]

\* the document texts of the runs: with a keyword of a category, without
\* one, and empty
BatchTexts ==
    { <<"I","N","V","O","I","C","E"," ","#","4","2"," ","B","i","l","l"," ","T","o",":"," ",
        "A","c","m","e"," ","A","m","o","u","n","t"," ","d","u","e",":"," ","$","5">>,
      <<"P","a","y","m","e","n","t"," ","o","k">>,
      <<"H","e","l","l","o"," ","w","o","r","l","d">>,
      <<>> }

\* a database file that exists and on which JSON.parse throws; content is
\* what had been stored in it
Damaged(database) == [exists |-> TRUE, parses |-> FALSE, content |-> database]

\* the database of an earlier run: one contract
EarlierDatabase ==
    withRecord(newDatabase(0), ObjectData(CHOOSE d \in ToolResults("contract") : TRUE),
               TypeName("contract"), 7, 0, "q")

\* the database file a run may find: none, an intact one, a damaged one
InitialFiles == {NoFile, FileOf(EarlierDatabase), Damaged(EarlierDatabase)}

\* printEvaluationReport: inputQuery is never empty
reportQuery == Str(vQuery)

\* printEvaluationReport called from processPdfFile: evaluateExtractedData
\* is pending on answerRelevancy.measure, or has resolved already
startedEvaluation(latestDoc, extractedText) ==
    IF reachesScorer(latestDoc.extractedData, Str(extractedText), reportQuery)
    THEN "measuring" ELSE "queued"

BatchInit ==
    /\ runner \in Runners
    /\ ppc = (CASE runner = "processDirectory" -> "list"
                [] runner = "main" -> "validate"
                [] runner = "pdfUrlWorkflow" -> "download")
    /\ pdfFiles = (IF runner = "processDirectory" THEN 0 ELSE 1)
    /\ showEval \in (IF runner = "main" THEN BOOLEAN ELSE {FALSE})
    /\ fileIndex = 1
    /\ stats = newStats(IF runner = "main" THEN 1 ELSE 0)
    /\ carried = NoCarried
    /\ fileLog = (IF runner = "processDirectory" THEN <<>> ELSE <<NewFile>>)
    /\ evaluation = "none"
    /\ console = <<>>
    /\ dbFile \in InitialFiles
    /\ dbBefore = dbFile
    /\ clock = 0
    /\ appending = [p \in Procs |-> NotAppending]
    /\ lastSearch = NoQuery

BatchIdle ==
    /\ runner = "none"
    /\ ppc = "idle"
    /\ pdfFiles = 0
    /\ showEval = FALSE
    /\ fileIndex = 1
    /\ stats = newStats(0)
    /\ carried = NoCarried
    /\ fileLog = <<>>
    /\ evaluation = "none"
    /\ console = <<>>
    /\ dbBefore = NoFile

\* processDirectory up to the loop: readdirSync throws, or no name ends in
\* .pdf, or stats.total = pdfFiles.length
ListDirectory ==
    /\ ppc = "list"
    /\ \/ /\ ppc' = "returned"
          /\ UNCHANGED <<pdfFiles, stats, fileLog>>
       \/ \E n \in 0..MaxFiles :
            /\ pdfFiles' = n
            /\ fileLog' = [i \in 1..n |-> NewFile]
            /\ IF n = 0
               THEN ppc' = "returned" /\ UNCHANGED stats
               ELSE ppc' = "validate" /\ stats' = [stats EXCEPT !.total = n]
    /\ UNCHANGED <<runner, showEval, fileIndex, carried, evaluation, console, dbBefore, dbFile, clock, appending, lastSearch>>

\* the catch of processPdfFile after step `name` threw: stats.errors++,
\* return false, and the caller goes on
Caught(name) ==
    /\ stats' = [stats EXCEPT !.errors = @ + 1]
    /\ fileLog' = [fileLog EXCEPT ![fileIndex] =
                      [ran(@, name, FALSE) EXCEPT !.errors = @ + 1]]
    /\ ppc' = afterFile(FALSE).ppc
    /\ fileIndex' = afterFile(FALSE).fileIndex
    /\ carried' = NoCarried

\* a step returned, or threw: under processPdfFile the throw (directly, or
\* as a status other than 'success' of run.start) reaches its catch
Stepped(name, ok, to, data) ==
    IF to = "failed" /\ runner # "pdfUrlWorkflow"
    THEN Caught(name)
    ELSE /\ ppc' = to
         /\ fileLog' = [fileLog EXCEPT ![fileIndex] = ran(@, name, ok)]
         /\ carried' = data
         /\ UNCHANGED <<stats, fileIndex>>

\* processPdfFile: validatePdfFile(filePath), else throw
Validate ==
    /\ ppc = "validate"
    /\ \E ok \in BOOLEAN :
        Stepped("validate", ok, IF ok THEN "text" ELSE "failed", carried)
    /\ UNCHANGED <<runner, pdfFiles, showEval, evaluation, console, dbBefore, dbFile, clock, appending, lastSearch>>

\* pdfUrlWorkflow: the step downloadPdf
Download ==
    /\ ppc = "download"
    /\ \E ok \in BOOLEAN :
        Stepped("download", ok, then(ok, "text"), carried)
    /\ UNCHANGED <<runner, pdfFiles, showEval, evaluation, console, dbBefore, dbFile, clock, appending, lastSearch>>

\* processPdfFile: await extractTextFromPdf(filePath) and the test for an
\* empty text; pdfUrlWorkflow: the step extractText
ExtractText ==
    /\ ppc = "text"
    /\ \/ Stepped("extractText", FALSE, "failed", carried)
       \/ \E t \in BatchTexts :
            LET ok == trim(t) # <<>>
                to == IF runner = "pdfUrlWorkflow" THEN then(ok, "classify")
                      ELSE IF ok THEN "classify" ELSE "failed"
            IN  Stepped("extractText", ok, to, [carried EXCEPT !.text = t])
    /\ UNCHANGED <<runner, pdfFiles, showEval, evaluation, console, dbBefore, dbFile, clock, appending, lastSearch>>

\* the step classifyDocument of docParseWorkflow and of pdfUrlWorkflow
ClassifyStep ==
    /\ ppc = "classify"
    /\ \/ Stepped("classify", FALSE, then(FALSE, "extract"), carried)
       \/ \E m \in ModelTexts :
            LET r == classify(m, carried.text)
                ok == r.documentType # "none"
            IN  Stepped("classify", ok, then(ok, "extract"),
                        IF ok THEN [carried EXCEPT !.documentType = r.documentType]
                        ELSE carried)
    /\ UNCHANGED <<runner, pdfFiles, showEval, evaluation, console, dbBefore, dbFile, clock, appending, lastSearch>>

\* the step extractDocumentData: the tool of the category returns a record
\* or throws; the default of the switch throws
ExtractStep ==
    /\ ppc = "extract"
    /\ \/ Stepped("extract", FALSE, then(FALSE, "persist"), carried)
       \/ /\ carried.documentType \in Categories
          /\ \E d \in ToolResults(carried.documentType) :
                Stepped("extract", TRUE, then(TRUE, "persist"),
                        [carried EXCEPT !.extractedData = ObjectData(d)])
    /\ UNCHANGED <<runner, pdfFiles, showEval, evaluation, console, dbBefore, dbFile, clock, appending, lastSearch>>

\* variant: the step may throw after the file has been written
PersistStep_SavesThenThrows ==
    /\ ppc = "persist"
    /\ \/ /\ Stepped("persist", FALSE, then(FALSE, "report"), carried)
          /\ UNCHANGED dbFile
       \/ /\ \E rnd \in Randoms :
                dbFile' = FileOf(withRecord(loadDatabase(dbFile, clock),
                                            carried.extractedData,
                                            IF carried.documentType \in Categories
                                            THEN TypeName(carried.documentType) ELSE <<>>,
                                            fieldCount(carried.extractedData), clock, rnd))
          /\ \E ok \in BOOLEAN :
                Stepped("persist", ok,
                        then(ok, IF runner = "pdfUrlWorkflow" THEN "evaluate" ELSE "report"),
                        carried)
    /\ UNCHANGED <<runner, pdfFiles, showEval, evaluation, console, dbBefore, clock, appending, lastSearch>>

\* the step saveToJSONDatabase / saveToDatabase: addToJSONDatabase returns
\* after saveDatabase, or throws before the file is written
PersistStep ==
    /\ ppc = "persist"
    /\ \/ /\ Stepped("persist", FALSE, then(FALSE, "report"), carried)
          /\ UNCHANGED dbFile
       \/ /\ \E rnd \in Randoms :
                dbFile' = FileOf(withRecord(loadDatabase(dbFile, clock),
                                            carried.extractedData,
                                            IF carried.documentType \in Categories
                                            THEN TypeName(carried.documentType) ELSE <<>>,
                                            fieldCount(carried.extractedData), clock, rnd))
          /\ Stepped("persist", TRUE,
                     then(TRUE, IF runner = "pdfUrlWorkflow" THEN "evaluate" ELSE "report"),
                     carried)
    /\ UNCHANGED <<runner, pdfFiles, showEval, evaluation, console, dbBefore, clock, appending, lastSearch>>

\* processPdfFile once run.start returned with status 'success': the logs,
\* getDatabaseStats, the evaluation report when showEval, stats.success++,
\* return true
ReportSuccess ==
    /\ ppc = "report"
    /\ LET documents == loadDatabase(dbFile, clock).documents
           evaluates == showEval /\ dbFile.exists /\ dbFile.parses /\ documents # <<>>
       IN  /\ fileLog' = [fileLog EXCEPT ![fileIndex] =
                            [(IF evaluates THEN ran(@, "evaluate", TRUE) ELSE @)
                             EXCEPT !.success = @ + 1]]
           /\ evaluation' = IF evaluates
                            THEN startedEvaluation(documents[Len(documents)], carried.text)
                            ELSE evaluation
    /\ stats' = [stats EXCEPT !.success = @ + 1]
    /\ ppc' = afterFile(TRUE).ppc
    /\ fileIndex' = afterFile(TRUE).fileIndex
    /\ carried' = NoCarried
    /\ UNCHANGED <<runner, pdfFiles, showEval, console, dbBefore, dbFile, clock, appending, lastSearch>>

\* main once processPdfFile has returned: 'Evaluation completed above' when
\* it returned true under --eval, then 'Completed in'.  The continuation
\* runs after the callbacks that were already due
MainCompletes ==
    /\ ppc = "exit"
    /\ evaluation # "queued"
    /\ console' = console
                    \o (IF stats.success > 0 /\ showEval
                        THEN <<"Evaluation completed above">> ELSE <<>>)
                    \o <<"Completed in">>
    /\ ppc' = "completed"
    /\ UNCHANGED <<runner, pdfFiles, showEval, fileIndex, stats, carried, fileLog, evaluation,
                   dbBefore, dbFile, clock, appending, lastSearch>>

\* answerRelevancy.measure settles (a reply of the model, or an error that
\* evaluateExtractedData catches): an I/O event, so not before the
\* continuation of main has run
MeasureSettles ==
    /\ evaluation = "measuring"
    /\ ppc # "exit"
    /\ evaluation' = "queued"
    /\ UNCHANGED <<runner, ppc, pdfFiles, showEval, fileIndex, stats, carried, fileLog, console,
                   dbBefore, dbFile, clock, appending, lastSearch>>

\* the then callback of printEvaluationReport prints the report
PrintReport ==
    /\ evaluation = "queued"
    /\ console' = Append(console, "Quality Report")
    /\ evaluation' = "reported"
    /\ UNCHANGED <<runner, ppc, pdfFiles, showEval, fileIndex, stats, carried, fileLog,
                   dbBefore, dbFile, clock, appending, lastSearch>>

\* pdfUrlWorkflow: the step evaluateData; what evaluateExtractedData throws
\* is caught and the step returns with evaluation null
EvaluateStep ==
    /\ ppc = "evaluate"
    /\ Stepped("evaluate", TRUE, then(TRUE, "succeeded"), carried)
    /\ UNCHANGED <<runner, pdfFiles, showEval, evaluation, console, dbBefore, dbFile, clock, appending, lastSearch>>

BatchNext ==
    \/ ListDirectory /\ UNCHANGED <<extractVars, classifyVars, evalVars>>
    \/ Validate /\ UNCHANGED <<extractVars, classifyVars, evalVars>>
    \/ Download /\ UNCHANGED <<extractVars, classifyVars, evalVars>>
    \/ ExtractText /\ UNCHANGED <<extractVars, classifyVars, evalVars>>
    \/ ClassifyStep /\ UNCHANGED <<extractVars, classifyVars, evalVars>>
    \/ ExtractStep /\ UNCHANGED <<extractVars, classifyVars, evalVars>>
    \/ PersistStep /\ UNCHANGED <<extractVars, classifyVars, evalVars>>
    \/ ReportSuccess /\ UNCHANGED <<extractVars, classifyVars, evalVars>>
    \/ EvaluateStep /\ UNCHANGED <<extractVars, classifyVars, evalVars>>
    \/ MainCompletes /\ UNCHANGED <<extractVars, classifyVars, evalVars>>
    \/ MeasureSettles /\ UNCHANGED <<extractVars, classifyVars, evalVars>>
    \/ PrintReport /\ UNCHANGED <<extractVars, classifyVars, evalVars>>


InitEval == EvalInit /\ ExtractIdle /\ ClassifyIdle /\ StoreIdle /\ BatchIdle

SpecEval == InitEval /\ [][EvalNext]_vars

InitClassify == ClassifyInit /\ ExtractIdle /\ EvalIdle /\ StoreIdle /\ BatchIdle

SpecClassify == InitClassify /\ [][ClassifyNext]_vars

InitExtract == ExtractInit /\ ClassifyIdle /\ EvalIdle /\ StoreIdle /\ BatchIdle

SpecExtract == InitExtract /\ [][ExtractNext]_vars

InitStore == StoreInit /\ ExtractIdle /\ ClassifyIdle /\ EvalIdle /\ BatchIdle

SpecStore == InitStore /\ [][StoreNext]_vars

InitBatch == BatchInit /\ ExtractIdle /\ ClassifyIdle /\ EvalIdle

SpecBatch == InitBatch /\ [][BatchNext]_vars

----------------------------------------------------------------------------
(* Claims about the extraction tools *)

FailureKinds == {"TransportError", "NoJsonFound", "SyntaxError", "ZodError"}

\* a reply that carries, once stamped, a schema-valid object of category c
YieldsValidObject(c, r) ==
    /\ r.kind = "object"
    /\ r.obj["documentType"] \in {Undefined, Str(TypeName(c))}
    /\ \A f \in RequiredFields(c) : r.obj[f].t = "string"

\* C1: execute returns the record of the first attempt (primary, then fallback)
\* whose reply yields a schema-valid object, and throws ExtractionFailed only
\* after both attempts have failed, each with one of the four failure kinds.
C1_ExtractOutcome ==
    /\ xpc = "returned" =>
        /\ YieldsValidObject(category, reply)
        /\ \A k \in SchemaKeys(category) \ {"documentType", "extractedAt"} :
                extracted[k] = reply.obj[k]
        /\ attempts[Len(attempts)] = NoError
        /\ \A i \in 1..(Len(attempts) - 1) : attempts[i] \in FailureKinds
        /\ extractError = NoFailure
    /\ xpc = "fallback" =>
        /\ Len(attempts) = 1 /\ attempts[1] \in FailureKinds
        /\ extracted = NoRecord /\ extractError = NoFailure
    /\ xpc = "failed" =>
        /\ extractError.name = "ExtractionFailed"
        /\ Len(attempts) = 2
        /\ attempts[1] \in FailureKinds /\ attempts[2] \in FailureKinds
        /\ extracted = NoRecord
    /\ extractError # NoFailure => xpc = "failed"

\* C1 witness: the primary attempt failed validation and the fallback's record is returned
C1_Witness ==
    /\ xpc = "returned" /\ Len(attempts) = 2 /\ attempts[1] = "ZodError"

\* C2: one model call when the primary attempt succeeds, two when it fails,
\* never more than two, and no second call after a successful primary attempt.
C2_ModelCalls ==
    /\ modelCalls = Len(attempts)
    /\ modelCalls <= 2
    /\ (xpc \in {"returned", "failed"} /\ attempts[1] = NoError) => modelCalls = 1
    /\ (xpc \in {"returned", "failed"} /\ attempts[1] # NoError) => modelCalls = 2
    /\ modelCalls = 2 => attempts[1] # NoError

\* C2 witness: execute has ended after two model calls
C2_Witness == xpc = "failed" /\ modelCalls = 2

\* C3 (as claimed): the error thrown after two failed attempts carries the
\* cause of the primary failure and the cause of the fallback failure.
C3_BothCauses ==
    xpc = "failed" =>
        /\ <<"primary", attempts[1]>> \in extractError.causes
        /\ <<"fallback", attempts[2]>> \in extractError.causes

\* C4: a returned record has exactly the schema's keys (required fields,
\* documentType, extractedAt), all strings, and documentType is the category.
C4_RecordShape ==
    xpc = "returned" =>
        /\ KeysOf(extracted) = RequiredFields(category) \cup {"documentType", "extractedAt"}
        /\ \A k \in KeysOf(extracted) : extracted[k].t = "string"
        /\ extracted["documentType"] = Str(TypeName(category))

\* C4 witness: a record is returned from a reply that carried a foreign key
C4_Witness == xpc = "returned" /\ reply.obj["notes"].t = "string"

----------------------------------------------------------------------------
(* Claims about the classifier *)

\* the category names in their order of precedence
NamePrecedence == <<"invoice", "contract", "receipt">>

\* the normalised model response names category c
Names(c) == includes(trim(toLowerCase(modelText)), TypeName(c))

\* the first element of NamePrecedence that satisfies P, or "none"
FirstNamed ==
    IF \E i \in 1..3 : Names(NamePrecedence[i])
    THEN NamePrecedence[CHOOSE i \in 1..3 :
            /\ Names(NamePrecedence[i])
            /\ \A j \in 1..(i - 1) : ~Names(NamePrecedence[j])]
    ELSE "none"

\* the keyword sets of the fallback, in the order in which they are tried
KeywordSets ==
    << {kwInvoice, kwBillTo, kwAmountDue},
       {kwAgreement, kwContract, kwTerms},
       {kwReceipt, kwStripe, kwPayment} >>

\* the full document text holds a keyword of set i
FullTextMatches(i) == \E kw \in KeywordSets[i] : includes(toLowerCase(docText), kw)

Decided == cpc \in {"done", "failed"} /\ modelText # NoText

\* C5: a response that names a category decides the category, invoice before
\* contract before receipt, with confidence 0.8, whatever the document text holds.
C5_ModelNameWins ==
    (Decided /\ FirstNamed # "none") =>
        /\ cpc = "done"
        /\ classified = [documentType |-> FirstNamed, confidence |-> 8]

\* C5 witness: the response names contract and receipt, the document text has
\* an invoice keyword, and the step has returned
C5_Witness ==
    /\ cpc = "done"
    /\ ~Names("invoice") /\ Names("contract") /\ Names("receipt")
    /\ FullTextMatches(1)

\* C6: a response that names no category leaves the decision to the full
\* document text: the first matching keyword set gives the category with
\* confidence 0.6, and without a match the step throws ClassificationFailed.
C6_KeywordFallback ==
    (Decided /\ FirstNamed = "none") =>
        IF \E i \in 1..3 : FullTextMatches(i)
        THEN /\ cpc = "done"
             /\ classified.confidence = 6
             /\ \E i \in 1..3 :
                    /\ classified.documentType = NamePrecedence[i]
                    /\ FullTextMatches(i)
                    /\ \A j \in 1..(i - 1) : ~FullTextMatches(j)
        ELSE /\ cpc = "failed"
             /\ classifyError.name = "ClassificationFailed"
             /\ classified = NoClass

\* C6 witness: the deciding keyword lies beyond the excerpt shown to the model
C6_Witness ==
    /\ cpc = "done" /\ classified = [documentType |-> "invoice", confidence |-> 6]
    /\ Len(docText) > 2000
    /\ ~includes(toLowerCase(SubSeq(docText, 1, 2000)), kwInvoice)
    /\ ~includes(toLowerCase(SubSeq(docText, 1, 2000)), kwAmountDue)

----------------------------------------------------------------------------
(* Claims about the evaluator *)

Done == epc = "done"

\* the data is an object that declares one of the three categories
Declared(c) ==
    /\ evalData.kind = "object"
    /\ Get(evalData.props, "documentType") = Str(TypeName(c))

KnownCategory == \E c \in Categories : Declared(c)

\* the value of required field f in the evaluated data
FieldOf(f) == Get(evalData.props, f)

ScorerWarning == <<"scorer", "LLM-based confidence evaluation failed">>

\* C7: every call resolves with a result, whatever the data; when the
\* relevancy measurement rejects, the result is the one of the same call
\* without a source text, with one more warning (and its 2-point penalty).
C7_NeverFails ==
    Done =>
        /\ result.exception = "none"
        /\ result.score >= 0 /\ result.score <= 100 * Point
        /\ scorer = Rejected =>
            LET plain == evaluateExtractedData(evalData, Undefined, inputQuery, NotCalled)
            IN  /\ result.warnings = <<ScorerWarning>> \o plain.warnings
                /\ result.score = Max(0, plain.score - 2 * Point)
                /\ [result EXCEPT !.warnings = <<>>, !.score = 0, !.scorerCalls = 0]
                     = [plain EXCEPT !.warnings = <<>>, !.score = 0]

\* C7 witness: a call whose relevancy measurement rejected has resolved
C7_Witness == Done /\ scorer = Rejected /\ result.warnings[1] = ScorerWarning

\* the result of an early return: one error and every score at 0
ShortCircuited ==
    /\ Len(result.errors) = 1
    /\ result.score = 0 /\ result.completeness = 0 /\ result.fieldAccuracy = 0
    /\ result.formatCompliance = 0 /\ result.dataQuality = 0
    /\ result.extractionConfidence = 0

\* C8 (as claimed): the early return happens exactly when the input is not a
\* non-null object; every object, of whatever documentType, is scored.
C8_ShortCircuitOnlyNonObject ==
    Done => (ShortCircuited <=> evalData.kind # "object")

\* C8 (amended): the early return happens exactly when the input is not a
\* non-null object or its documentType is none of the three categories;
\* every object of a known category is scored.
C8_ShortCircuit ==
    Done =>
        /\ ShortCircuited <=> (~isObject(evalData) \/ ~KnownCategory)
        /\ ~isObject(evalData) =>
                result.errors = << <<"", "Invalid data structure: not an object">> >>
        /\ (isObject(evalData) /\ ~KnownCategory) =>
                result.errors = << <<"", "Unsupported document type">> >>
        /\ KnownCategory => result.formatCompliance + result.completeness > 0

\* C8 witness: an object with an unknown documentType got the early return
C8_Witness ==
    /\ Done /\ ShortCircuited /\ evalData.kind = "object"
    /\ Get(evalData.props, "documentType") = Str(<<"m","e","m","o">>)

\* a required field is filled: a string with a character that is no white
\* space (the function's notion of non-empty) which, lower-cased, is none of
\* the three sentinels
Filled(v) ==
    /\ v.t = "string"
    /\ \E i \in 1..Len(v.s) : v.s[i] \notin {" ", "\t", "\n"}
    /\ toLowerCase(v.s) \notin {<<"n","o","t"," ","f","o","u","n","d">>, <<"u","n","k","n","o","w","n">>, <<"n","o","t"," ","s","p","e","c","i","f","i","e","d">>}

SentinelSpellings ==
    { <<"N","o","t"," ","f","o","u","n","d">>, <<"N","O","T"," ","F","O","U","N","D">>, <<"N","o","t"," ","s","p","e","c","i","f","i","e","d">>, <<"n","o","t"," ","s","p","e","c","i","f","i","e","d">>, <<"U","n","k","n","o","w","n">>, <<"U","N","K","N","O","W","N">> }

\* every required field of category c holds the spelling s
AllFields(c, s) == \A f \in RequiredFields(c) : FieldOf(f) = Str(s)

\* C10: a record whose required fields all hold the same sentinel, in any
\* letter case, has completeness 0 and fieldAccuracy 0.
C10_SentinelRecord ==
    \A c \in Categories : \A s \in SentinelSpellings :
        (Done /\ Declared(c) /\ AllFields(c, s)) =>
            /\ result.completeness = 0
            /\ result.fieldAccuracy = 0

\* C10 witness: a contract whose fields all hold the upper-case "NOT FOUND"
C10_Witness == Done /\ Declared("contract") /\ AllFields("contract", <<"N","O","T"," ","F","O","U","N","D">>)

\* a value the format checks leave out: absent, not a string, blank, or one
\* of the three sentinels once trimmed and lower-cased
Uncheckable(v) ==
    \/ v.t # "string"
    \/ \A i \in 1..Len(v.s) : v.s[i] \in {" ", "\t", "\n"}
    \/ toLowerCase(trim(v.s)) \in {<<"n","o","t"," ","f","o","u","n","d">>, <<"u","n","k","n","o","w","n">>, <<"n","o","t"," ","s","p","e","c","i","f","i","e","d">>}

\* the required fields of c whose value is checked, and those that pass
Checkable(c) == {f \in RequiredFields(c) : ~Uncheckable(FieldOf(f))}
Compliant(c) == {f \in Checkable(c) : formatCheck(f, FieldOf(f)) = "ok"}

\* C11: formatCompliance is the share of compliant fields among the checkable
\* ones only (a sentinel, absent or empty field is in neither count), and is
\* 100 when no field is checkable.
C11_FormatExclusion ==
    \A c \in Categories :
        (Done /\ Declared(c)) =>
            /\ Checkable(c) = {} => result.formatCompliance = 100 * Point
            /\ Checkable(c) # {} =>
                 result.formatCompliance * Cardinality(Checkable(c))
                    = 100 * Point * Cardinality(Compliant(c))

\* C11 witness: a record with a sentinel field, a compliant field and a
\* field that breaks its format rule
C11_Witness ==
    /\ Done /\ KnownCategory
    /\ \E f \in DOMAIN evalData.props : evalData.props[f] = Str(<<"U","n","k","n","o","w","n">>)
    /\ result.formatCompliance > 0
    /\ result.formatCompliance < 100 * Point

\* a confidence was obtained: the relevancy measurement was called and resolved
ConfidenceObtained == scorer.called /\ scorer.ok

\* 0.35*completeness + 0.30*fieldAccuracy + 0.20*formatCompliance + 0.15*dataQuality
HeuristicOf(r) ==
    (35 * r.completeness + 30 * r.fieldAccuracy
        + 20 * r.formatCompliance + 15 * r.dataQuality) \div 100

PenaltiesOf(r) == (2 * Len(r.warnings) + 8 * Len(r.errors)) * Point

\* C12 (as claimed): the score is the clamp of B less the penalties, with
\* B = H when no confidence was obtained and 0.9*H + 0.1*confidence when one was.
C12_ScoreFormula ==
    \A c \in Categories :
        (Done /\ Declared(c)) =>
            LET H == HeuristicOf(result)
                B == IF ConfidenceObtained
                     THEN (9 * H + result.extractionConfidence) \div 10
                     ELSE H
            IN  /\ result.score = Max(0, Min(100 * Point, B - PenaltiesOf(result)))
                /\ result.score >= 0 /\ result.score <= 100 * Point

\* a value that is absent, empty (blank) or a placeholder
Unfilled(v) ==
    \/ v.t = "undefined"
    \/ /\ v.t = "string"
       /\ \/ \A i \in 1..Len(v.s) : v.s[i] \in {" ", "\t", "\n"}
          \/ toLowerCase(trim(v.s))
                \in {<<"n","o","t"," ","f","o","u","n","d">>, <<"u","n","k","n","o","w","n">>, <<"n","o","t"," ","s","p","e","c","i","f","i","e","d">>, <<"n","/","a">>, <<"n","u","l","l">>}

\* non-placeholder values of 2 to 100 characters that satisfy the format rule
\* of a field of the given kind
WellFormed(kind) ==
    CASE kind = "email" -> {<<"a","@","b",".","c","o">>, <<"b","i","l","l","i","n","g","@","a","c","m","e",".","e","x","a","m","p","l","e",".","c","o","m">>}
      [] kind = "date" -> {<<"2","0","2","5","-","0","8","-","0","1">>, <<"8","/","1","/","2","0","2","5">>, <<"1","-","8","-","2","0","2","5">>, <<"A","u","g","u","s","t"," ","1",","," ","2","0","2","5">>}
      [] kind = "amount" -> {<<"$","1","0">>, <<"1",",","2","5","0",".","0","0">>, <<"1","0"," ","$">>}
      [] kind = "number" -> {<<"I","N","V","-","4","2">>, <<"4","2">>, Repeat("7", 50)}
      [] kind = "general" -> {<<"A","c","m","e"," ","C","o","r","p">>, <<"U","S">>, Repeat("x", 100)}

\* the record with field f set to the string s
WithField(f, s) ==
    ObjectData([k \in DOMAIN evalData.props \cup {f} |->
                    IF k = f THEN Str(s) ELSE evalData.props[k]])

\* the overall score computed without the confidence step
PlainScore(data) == evaluateExtractedData(data, Undefined, Undefined, NotCalled).score

\* an evaluation made without source text and query has returned
DonePlain == Done /\ originalText = Undefined /\ inputQuery = Undefined

\* C13: filling an absent, empty or placeholder required field with a
\* well-formed value never lowers the overall score.
C13_Monotone ==
    \A c \in Categories :
        (DonePlain /\ Declared(c)) =>
            \A f \in RequiredFields(c) :
                Unfilled(FieldOf(f)) =>
                    \A s \in WellFormed(formatKind(f)) :
                        PlainScore(WithField(f, s)) >= result.score

\* C13 witness: an invoice with an absent dueDate whose score rises when the
\* field is filled with a well-formed date
C13_Witness ==
    /\ DonePlain /\ Declared("invoice")
    /\ FieldOf("dueDate") = Undefined
    /\ result.score > 0
    /\ PlainScore(WithField("dueDate", <<"2","0","2","5","-","0","8","-","0","1">>)) > result.score

\* the required fields of c that hold a non-placeholder value breaking the
\* format rule of their kind
Violating(c) == Checkable(c) \ Compliant(c)

\* the receipt of scenario B: only customerEmail breaks its format rule
ScenarioB ==
    /\ Declared("receipt")
    /\ FieldOf("customerEmail") = Str(<<"n","o","t","-","a","n","-","e","m","a","i","l">>)
    /\ FieldOf("date") = Str(<<"2","0","2","5","-","0","8","-","0","1">>)
    /\ FieldOf("amount") = Str(<<"$","1","0">>)
    /\ FieldOf("description") = Str(<<"A","c","m","e"," ","C","o","r","p">>)

\* C14: qualityIssues holds exactly one entry, naming the field, for each
\* violating field and none for another field; a record with exactly one
\* violating field has one quality issue and formatCompliance below 100.
C14_QualityIssues ==
    \A c \in Categories :
        (Done /\ Declared(c)) =>
            /\ \A i \in 1..Len(result.qualityIssues) :
                    result.qualityIssues[i][1] \in Violating(c)
            /\ \A f \in Violating(c) :
                    Cardinality({i \in 1..Len(result.qualityIssues) :
                                    result.qualityIssues[i][1] = f}) = 1
            /\ Cardinality(Violating(c)) = 1 =>
                    /\ Len(result.qualityIssues) = 1
                    /\ result.formatCompliance < 100 * Point
            /\ ScenarioB =>
                    /\ result.qualityIssues = << <<"customerEmail", "Invalid email format">> >>
                    /\ result.formatCompliance < 100 * Point

\* C14 witness: the receipt of scenario B has been evaluated
C14_Witness == Done /\ ScenarioB /\ Len(result.qualityIssues) = 1

\* C15: a record from which a required field is absent is not valid, lists
\* the field in missingFields and has a warning naming it.
C15_AbsentField ==
    \A c \in Categories :
        (Done /\ Declared(c)) =>
            \A f \in RequiredFields(c) :
                FieldOf(f) = Undefined =>
                    /\ result.isValid = FALSE
                    /\ \E i \in 1..Len(result.missingFields) : result.missingFields[i] = f
                    /\ \E i \in 1..Len(result.warnings) : result.warnings[i][1] = f

\* C15 witness: the invoice of scenario C, complete but for its dueDate
C15_Witness ==
    /\ Done /\ Declared("invoice")
    /\ FieldOf("dueDate") = Undefined
    /\ \A f \in RequiredFields("invoice") \ {"dueDate"} : FieldOf(f) = Good(f)
    /\ result.missingFields = <<"dueDate">>

\* an optional string argument was supplied and is not empty
Supplied(v) == v.t = "string" /\ Len(v.s) > 0

\* C22 as stated: the relevancy measurement is invoked if and only if a
\* source text and a query are both supplied and non-empty, whatever the
\* data; with a query and no source text no call is made and
\* extractionConfidence stays 0.
C22_ScorerIff ==
    epc = "done" =>
        /\ scorer.called <=> (Supplied(originalText) /\ Supplied(inputQuery))
        /\ ~Supplied(originalText) => (~scorer.called /\ result.extractionConfidence = 0)

\* C22: for data that is an object of one of the three categories the
\* relevancy measurement is invoked if and only if a source text and a
\* query are both supplied and non-empty; for any other data it is not
\* invoked; with a query and no source text no call is made and
\* extractionConfidence stays 0.
C22_ScorerIffSupported ==
    epc = "done" =>
        /\ scorer.called <=>
            /\ Supplied(originalText) /\ Supplied(inputQuery)
            /\ evalData.kind \in {"object", "array"}
            /\ \E c \in Categories :
                Get(evalData.props, "documentType") = Str(TypeName(c))
        /\ ~Supplied(originalText) => (~scorer.called /\ result.extractionConfidence = 0)

\* a record of a known category was evaluated with a query and no source
\* text, as the evaluate step of pdfUrlWorkflow does
C22_Witness ==
    /\ epc = "done"
    /\ originalText = Undefined
    /\ inputQuery = Str(vQuery)
    /\ evalData.kind = "object"
    /\ Get(evalData.props, "documentType") = Str(TypeName("invoice"))
    /\ ~scorer.called
    /\ result.extractionConfidence = 0

\* the three placeholder sentinels, in lower case
SentinelTexts ==
    { <<"n","o","t"," ","f","o","u","n","d">>, <<"u","n","k","n","o","w","n">>,
      <<"n","o","t"," ","s","p","e","c","i","f","i","e","d">> }

\* every required field of the evaluated record of category c holds the
\* sentinel t, in any case
AllSentinel(c, t) ==
    \A f \in RequiredFields(c) :
        FieldOf(f).t = "string" /\ toLowerCase(FieldOf(f).s) = t

\* C23: a required field earns at most 3 quality points, and a field that
\* holds a placeholder sentinel ("Not found", "Unknown", "Not specified",
\* any case) earns exactly 1, so a record whose every required field is the
\* same sentinel has dataQuality = 100/3, whichever sentinel it is.
C23_SentinelQuality ==
    \A c \in Categories :
        (Done /\ Declared(c)) =>
            /\ result.dataQuality <= 100 * Point
            /\ \A t \in SentinelTexts :
                AllSentinel(c, t) => result.dataQuality = (100 * Point) \div 3

\* C24: when the classification model call itself fails, classify fails
\* with ClassificationFailed carrying that error as its cause; the keyword
\* fallback is not consulted and the call is not repeated, so no reply is
\* ever received and no classification returned, whatever the text holds.
C24_TransportFailure ==
    /\ modelText = NoText => (classified = NoClass /\ cpc \in {"call", "failed", "idle"})
    /\ (cpc = "failed" /\ modelText = NoText) =>
            classifyError = ClassificationFailed("TransportError")
    /\ "TransportError" \in classifyError.causes =>
            /\ cpc = "failed"
            /\ modelText = NoText
            /\ classified = NoClass

\* the model call failed for a text that names a category by keyword
C24_Witness ==
    /\ cpc = "failed"
    /\ classifyError = ClassificationFailed("TransportError")
    /\ includes(toLowerCase(docText), <<"i","n","v","o","i","c","e">>)

\* the objects of a model reply in which every required field is a string
\* and documentType, extractedAt and notes are as the model chose
CompleteObjects(c) ==
    {[k \in ObjectKeys(c) |->
        CASE k = "documentType" -> dt
          [] k = "extractedAt" -> ea
          [] k = "notes" -> nt
          [] OTHER -> Str(NotFoundText)] :
        dt \in TypeReplyValues(c), ea \in StampReplyValues, nt \in NotesReplyValues}

\* C25: in an attempt of the executing tool the parsed model object is
\* stamped with documentType = category and extractedAt = now, and the stamp
\* overrides what the model supplied under those keys: an object with its
\* own documentType or extractedAt still gives a stamped object with
\* documentType = category that passes validation.
C25_StampOverrides ==
    \A o \in CompleteObjects(category) :
        LET d == finalData(category, o)
        IN  /\ d["documentType"] = Str(TypeName(category))
            /\ d["extractedAt"] = Str(Now)
            /\ AttemptError(category, Reply("object", o)) = NoError

\* C30: for every record of a known category fieldAccuracy <= completeness
\* (every required field counted as accurate is also counted as present),
\* and the fields listed as missing are not counted as accurate.
C30_AccuracyBelowCompleteness ==
    \A c \in Categories :
        (Done /\ Declared(c)) =>
            LET n == Cardinality(RequiredFields(c))
            IN  /\ result.fieldAccuracy <= result.completeness
                /\ result.fieldAccuracy * n <= (n - Len(result.missingFields)) * 100 * Point

\* an invoice in which one field is present without being accurate ("N/A")
\* and the others are well-formed
C30_Witness ==
    /\ Done /\ Declared("invoice")
    /\ FieldOf("currency") = Str(<<"N","/","A">>)
    /\ \A f \in RequiredFields("invoice") \ {"currency"} : FieldOf(f) = Good(f)
    /\ result.completeness = 100 * Point
    /\ result.fieldAccuracy = 80 * Point

----------------------------------------------------------------------------
(* Claims about the JSON database *)

\* the records of the database file
Stored == IF dbFile.exists /\ dbFile.parses THEN dbFile.content.documents ELSE <<>>

\* data is a record the schema of some category accepts
SchemaValid(data) ==
    /\ data.kind = "object"
    /\ \E c \in Categories :
        /\ DOMAIN data.props = SchemaKeys(c)
        /\ schemaAccepts(c, data.props)

\* C17 (as claimed): every record in the store holds a fully schema-valid
\* extracted record; none holds missing or undefined extracted data.
C17_OnlyValidRecords ==
    \A i \in 1..Len(Stored) : SchemaValid(Stored[i].extractedData)

\* the stored records a type filter selects
Matching(documentType) ==
    IF documentType = Undefined THEN Stored
    ELSE SelectSeq(Stored, LAMBDA doc : Str(doc.documentType) = documentType)

TimesOf(records) == [i \in 1..Len(records) |-> records[i].processedAt]

\* C19 (as claimed): a search returns matching records only, newest first,
\* and with a limit of n >= 1 they are the n most recently processed ones.
C19_MostRecent ==
    lastSearch.asked =>
        LET matching == Matching(lastSearch.documentType)
            results == lastSearch.results
        IN  /\ \A i \in 1..Len(results) : \E j \in 1..Len(matching) : results[i] = matching[j]
            /\ \A i \in 1..Len(results) : \A j \in i..Len(results) :
                    results[i].processedAt >= results[j].processedAt
            /\ (lastSearch.limit.given /\ lastSearch.limit.n >= 1) =>
                    TimesOf(results)
                        = TimesOf(slice0(sortNewestFirst(matching), lastSearch.limit.n))

CountOfType(c) == Cardinality({i \in 1..Len(Stored) : Stored[i].documentType = TypeName(c)})

\* C20 (as claimed): in the stored database totalDocuments is the number of
\* records, each per-type count is the number of records of that type, the
\* three counts sum to totalDocuments and every record has one of the types.
C20_CountsAccurate ==
    (dbFile.exists /\ dbFile.parses) =>
        LET database == dbFile.content
        IN  /\ database.totalDocuments = Len(Stored)
            /\ database.statistics.invoices = CountOfType("invoice")
            /\ database.statistics.contracts = CountOfType("contract")
            /\ database.statistics.receipts = CountOfType("receipt")
            /\ database.statistics.invoices + database.statistics.contracts
                    + database.statistics.receipts = database.totalDocuments
            /\ \A i \in 1..Len(Stored) :
                    \E c \in Categories : Stored[i].documentType = TypeName(c)

IsPrefix(s, t) == Len(s) <= Len(t) /\ SubSeq(t, 1, Len(s)) = s

\* C21: the store is append-only, also when the loads and saves of two
\* processes interleave: no step removes or changes a stored record, so
\* every record that was stored, and every record whose append returned,
\* stays in the store.
C21_AppendOnly == [][IsPrefix(Stored, Stored')]_vars

----------------------------------------------------------------------------
(* Claims about the orchestrators *)

\* file i went through the whole pipeline: its record was persisted
Completed(i) ==
    \E j \in DOMAIN fileLog[i].steps :
        fileLog[i].steps[j].name = "persist" /\ fileLog[i].steps[j].ok

\* processPdfFile has returned for file i
Returned(i) == i < fileIndex \/ ppc \in {"summary", "exit"}

\* C16: in a batch over a directory with N PDF files of which K complete
\* the pipeline, success + errors <= total at every moment, every file
\* increments exactly one of the two counters exactly once (success if and
\* only if it completed the pipeline), a failing file does not stop the
\* batch, and the batch ends with total = N, success = K, errors = N - K.
C16_BatchAccounting ==
    runner = "processDirectory" =>
        LET files == DOMAIN fileLog
            K == Cardinality({i \in files : Completed(i)})
        IN  /\ stats.success + stats.errors <= stats.total
            /\ stats.success = Cardinality({i \in files : fileLog[i].success > 0})
            /\ stats.errors = Cardinality({i \in files : fileLog[i].errors > 0})
            /\ \A i \in files :
                /\ fileLog[i].success + fileLog[i].errors <= 1
                /\ Returned(i) =>
                    /\ fileLog[i].success + fileLog[i].errors = 1
                    /\ fileLog[i].success = 1 <=> Completed(i)
            /\ ppc = "returned" => pdfFiles = 0
            /\ ppc \in {"summary", "returned"} =>
                /\ \A i \in files : fileLog[i].steps # <<>>
                /\ stats.total = pdfFiles
                /\ stats.success = K
                /\ stats.errors = pdfFiles - K

\* a batch of at least two files has ended; its first file failed and a
\* later one was processed and completed
C16_Witness ==
    /\ runner = "processDirectory"
    /\ ppc = "summary"
    /\ pdfFiles >= 2
    /\ fileLog[1].errors = 1
    /\ \E i \in 2..pdfFiles : Completed(i) /\ fileLog[i].success = 1

\* the order of the steps of one document
StepOrder ==
    <<(IF runner = "pdfUrlWorkflow" THEN "download" ELSE "validate"),
      "extractText", "classify", "extract", "persist", "evaluate">>

\* C18: the steps of one document run in the order validate (the download,
\* for a URL), extract text, classify, extract, persist, evaluate, each at
\* most once, each only after the previous one succeeded, and none after a
\* step that failed.
C18_StepOrder ==
    \A i \in DOMAIN fileLog :
        LET steps == fileLog[i].steps
        IN  /\ Len(steps) <= Len(StepOrder)
            /\ \A j \in DOMAIN steps :
                /\ steps[j].name = StepOrder[j]
                /\ j < Len(steps) => steps[j].ok

\* a batch has ended in which the run of the first file stopped at a
\* classification that failed and the run of a later file went through
\* validate, extract text, classify, extract and persist
C18_Witness ==
    /\ runner = "processDirectory"
    /\ ppc = "summary"
    /\ Len(fileLog[1].steps) = 3
    /\ ~fileLog[1].steps[3].ok
    /\ \E i \in 2..pdfFiles :
        /\ Len(fileLog[i].steps) = 5
        /\ fileLog[i].steps[5].ok

\* C26: in a single-file run with --eval in which the evaluation of the
\* file was started, "Evaluation completed above" and "Completed in" are
\* printed only after the evaluation report of the file.
C26_ReportBeforeCompletion ==
    (runner = "main" /\ showEval /\ evaluation # "none") =>
        \A i \in DOMAIN console :
            console[i] \in {"Evaluation completed above", "Completed in"} =>
                \E j \in 1..(i - 1) : console[j] = "Quality Report"

\* C27: every record returned by an extraction tool is judged schema-valid
\* by the evaluator: evaluateExtractedData on it gives isValid = true and
\* no errors.
C27_ExtractedIsValid ==
    xpc = "returned" =>
        LET evaluation0 == evaluateExtractedData(ObjectData(extracted), Undefined, Undefined,
                                                 NotCalled)
        IN  evaluation0.isValid /\ evaluation0.errors = <<>>

\* the file is absent or can be parsed
Intact(file) == ~file.exists \/ file.parses

\* the records of a file
RecordsIn(file) == IF file.exists /\ file.parses THEN file.content.documents ELSE <<>>

\* C28: in a batch run by one process against an intact store the store
\* grows by exactly the success counter: every file counted as success
\* added exactly one record, every file counted as error added none, and
\* what was stored before is kept.
C28_GrowthIsSuccess ==
    (runner = "processDirectory" /\ Intact(dbBefore)) =>
        LET growth == Len(RecordsIn(dbFile)) - Len(RecordsIn(dbBefore))
            files == DOMAIN fileLog
        IN  /\ IsPrefix(RecordsIn(dbBefore), RecordsIn(dbFile))
            /\ growth = Cardinality({i \in files : Completed(i)})
            /\ growth = stats.success + (IF ppc = "report" THEN 1 ELSE 0)
            /\ \A i \in files : fileLog[i].errors > 0 => ~Completed(i)
            /\ \A i \in files : fileLog[i].success > 0 => Completed(i)
            /\ ppc \in {"summary", "returned"} => growth = stats.success

\* a batch over at least two files against a store with an earlier record
\* has ended with a success and an error
C28_Witness ==
    /\ runner = "processDirectory"
    /\ ppc = "summary"
    /\ dbBefore = FileOf(EarlierDatabase)
    /\ stats.success >= 1
    /\ stats.errors >= 1
    /\ Len(RecordsIn(dbFile)) = 1 + stats.success

\* C29: when the database file exists and cannot be parsed, loadDatabase
\* returns a new empty database, and the appends that follow write a
\* database holding only the records appended since: the first one leaves
\* the new record alone in the store, and the records and counts the file
\* held before are gone.
C29_DamagedFileReset ==
    (dbBefore.exists /\ ~dbBefore.parses) =>
        /\ loadDatabase(dbBefore, clock) = newDatabase(clock)
        /\ dbFile # dbBefore =>
            LET database == dbFile.content
                appended == Cardinality({i \in DOMAIN fileLog : Completed(i)})
            IN  /\ dbFile.exists /\ dbFile.parses
                /\ Len(database.documents) = appended
                /\ \A i \in DOMAIN database.documents :
                    \A j \in DOMAIN dbBefore.content.documents :
                        database.documents[i].id # dbBefore.content.documents[j].id
                /\ database.totalDocuments = appended
                /\ database.statistics.invoices + database.statistics.contracts
                    + database.statistics.receipts = appended

\* the first append of a run that found a damaged file with one record
C29_Witness ==
    /\ dbBefore = Damaged(EarlierDatabase)
    /\ Len(dbBefore.content.documents) = 1
    /\ dbFile.parses
    /\ Len(dbFile.content.documents) = 1
    /\ dbFile.content.totalDocuments = 1

====
